---- MODULE Spec2Model ----
(***************************************************************************)
(* A model of appstart: the container sandbox (appstart/sandbox) and the   *)
(* contract validation engine (appstart/validator/contract.py).            *)
(*                                                                         *)
(* The main thread of the program is modelled by a call stack (stack) and  *)
(* a position inside the top frame (pc).  The docker daemon, the container *)
(* processes and the operator's SIGINT are the environment.                *)
(***************************************************************************)
EXTENDS Integers, Sequences, FiniteSets, TLC

(***************************************************************************)
(* Bounds of the model.                                                    *)
(***************************************************************************)
MaxStarts == 2

MaxStops == 2

MaxEvents == 1

MaxTimeout == 2

MaxIds == 3 * MaxStarts

(***************************************************************************)
(* Values.                                                                 *)
(***************************************************************************)
Slots == {"das", "app", "pinger"}

\* Container handle attribute of the sandbox: None, a Container object whose
\* _container_id is None, or a Container object holding an id.
NoObj == -1

NoId == 0

Ids == 1..MaxIds

\* Exceptions that travel through the sandbox code.
NoExc == "none"

TimedOut == "AppstartAbort: The application server timed out."

DasDied == "AppstartAbort: Devappserver stopped prematurely"

CreateRejected == "AppstartAbort: Could not create container"

StartRejected == "AppstartAbort: Docker error"

BuildFailed == "AppstartAbort: Image build failed."

APIError == "docker.errors.APIError"

KeyboardInterrupt == "KeyboardInterrupt"

\* The order in which create_and_run_containers creates the containers.
creation_order == <<"das", "app", "pinger">>

containers_to_remove_Reversed == <<"pinger", "app", "das">>

\* containers_to_remove, in the order of the list built by
\* stop_and_remove_containers.
containers_to_remove == <<"app", "das", "pinger">>

VARIABLES
  run_devappserver,  \* ContainerSandbox.run_devappserver
  timeout,           \* ContainerSandbox.timeout
  handle,            \* the three container attributes of the sandbox
  rt,                \* the daemon's view of every container id
  EXITING,           \* container._EXITING
  handler,           \* the process's SIGINT handler
  prev,              \* local 'prev' of Container.create
  stack,             \* call stack of the main thread
  pc,                \* position in the top frame
  cur,               \* slot being created/started
  idx,               \* index into containers_to_remove inside stop()
  attempt,           \* local 'attempt' of wait_for_start
  startExc,          \* exception held by the except clause of start()
  valExc,            \* exception held by the finally clause of validate()
  outcome,           \* how the last driver-level call ended
  lastCall,          \* the last driver-level call
  starts, stops,     \* number of start() and stop() calls the driver has made
  events,            \* number of SIGINTs, container exits and refusals of the daemon so far
  hist,              \* observations about the run (history, never read by the program)
  streamer,          \* the log_streamer thread that stream_logs() has started
  clauses,           \* the clause classes of the contract module, by name, with their attributes
  contract,          \* ContractValidator.contract: lifecycle point -> list of clauses
  added_clauses,     \* ContractValidator.__added_clauses
  success_set,       \* ContractValidator.__success_set
  _tags,             \* ContractValidator._tags
  visited_classes,   \* argument visited_classes of _add_clause
  recursion_stack,   \* argument recursion_stack of _add_clause
  pending,           \* per frame of _add_clause: what its for loop has not reached yet
  todo,              \* what the loop of _construct_contract has not reached yet
  built,             \* how far ContractValidator.__init__ has come
  error,             \* the exception that left ContractValidator.__init__
  threshold,         \* local 'threshold' of validate()
  point,             \* index into _TIMELINE of the loop in validate()
  pos,               \* index of the next clause in the suite of the current point
  res_success,       \* ContractTestResult.success of the current suite
  validation_passed  \* local 'validation_passed' of validate()

sbVars == <<run_devappserver, timeout, handle, rt, EXITING, handler,
            prev, stack, pc, cur, idx, attempt, startExc, valExc, outcome,
            lastCall, starts, stops, events, hist, streamer>>

\* The class attributes of the clauses, which normalization rewrites.
classVars == <<clauses>>

\* State of ContractValidator.__init__.
resolveVars == <<contract, added_clauses, visited_classes, recursion_stack,
                 pending, todo, built, error>>

\* State of ContractValidator.validate().
runVars == <<success_set, _tags, threshold, point, pos, res_success,
             validation_passed>>

valVars == <<classVars, resolveVars, runVars>>

vars == <<sbVars, valVars>>

(***************************************************************************)
(* Control flow of the main thread.  A control record k carries the        *)
(* variables that a call, a return or a raise changes.                     *)
(***************************************************************************)
NoCreateExit ==
  [exc |-> "in", id |-> NoId, made |-> NoId, sig |-> FALSE, during |-> FALSE]

\* hist.createExit describes the exit from Container.create() in the one state
\* that follows it.
Ctl ==
  [stack |-> stack, pc |-> pc, idx |-> idx, startExc |-> startExc,
   valExc |-> valExc, outcome |-> outcome,
   hist |-> [hist EXCEPT !.createExit = NoCreateExit]]

SetCtl(k) ==
  /\ stack' = k.stack
  /\ pc' = k.pc
  /\ idx' = k.idx
  /\ startExc' = k.startExc
  /\ valExc' = k.valExc
  /\ outcome' = k.outcome
  /\ hist' = k.hist

At(k, p) == [k EXCEPT !.pc = p]

Front(s) == SubSeq(s, 1, Len(s) - 1)

Last(s) == s[Len(s)]

\* The call returns (e = NoExc) or raises e into the driver; its locals are
\* gone.
ToDriver(k, e) ==
  [k EXCEPT !.stack = <<>>, !.pc = "idle", !.idx = 1,
            !.startExc = NoExc, !.valExc = NoExc,
            !.outcome = IF e = NoExc THEN "ok" ELSE e]

\* ContainerSandbox.stop(): stop_and_remove_containers starts its loop.
EnterStop(k, from) ==
  [k EXCEPT !.stack = Append(k.stack, "stop"), !.pc = "st_check", !.idx = 1,
            !.hist.calls = <<>>, !.hist.seenRunning = {}, !.hist.stopFrom = from]

ValidateFinally_OnSuccess(k, e) ==
  IF e = NoExc
    THEN EnterStop([k EXCEPT !.valExc = e, !.hist.valStop = TRUE], "validate")
    ELSE ToDriver(k, e)

\* validate(): 'finally: self.sandbox.stop()' entered with exception e pending.
ValidateFinally(k, e) ==
  EnterStop([k EXCEPT !.valExc = e, !.hist.valStop = TRUE], "validate")

\* start(), normal return or exception e leaving it; the frames below start()
\* are the driver or validate()'s try block.
LeaveStart(k, e) ==
  LET rest == Front(k.stack)
      k1 == [k EXCEPT !.stack = rest, !.hist.startLeft = e]
  IN IF rest = <<>> THEN ToDriver(k1, e)
     ELSE IF e = NoExc THEN At(k1, "v_phase")
     ELSE ValidateFinally(k1, e)

StartExcept_NoStop(k, e) ==
  LeaveStart([k EXCEPT !.startExc = e, !.hist.carRaised = e], e)

\* start(): 'except: self.stop(); raise'.
StartExcept(k, e) ==
  EnterStop([k EXCEPT !.startExc = e, !.hist.carRaised = e,
                      !.hist.stopInStart = TRUE], "start")

\* stop() returns (e = NoExc) or raises e: into the driver, into the except
\* clause of start() (whose bare 'raise' re-raises the exception it caught), or
\* into the finally clause of validate() (which re-raises what was pending).
LeaveStop(k, e) ==
  LET rest == Front(k.stack)
      k1 == [k EXCEPT !.stack = rest, !.hist.stopLeft = e]
  IN IF rest = <<>> THEN ToDriver(k1, e)
     ELSE IF Last(rest) = "start"
       THEN LeaveStart([k1 EXCEPT !.hist.handlerStopLeft = e],
                       IF e = NoExc THEN k1.startExc ELSE e)
     ELSE ToDriver(k1, IF e = NoExc THEN k1.valExc ELSE e)

\* Exception e is raised at the current position of the main thread.
Throw(k, e) ==
  CASE Last(k.stack) = "start" -> StartExcept(k, e)
    [] Last(k.stack) = "validate" -> ValidateFinally(k, e)
    [] Last(k.stack) = "stop" -> LeaveStop(k, e)

(***************************************************************************)
(* The docker daemon as the sandbox sees it.                               *)
(***************************************************************************)
\* The id the daemon gives to the next container it creates.
FreshId == CHOOSE i \in Ids : rt[i] = "absent" /\ \A j \in Ids : j < i => rt[j] # "absent"

Exists(i) == rt[i] \in {"created", "running", "exited"}

\* Container.running(): False without an id, else State.Running of
\* inspect_container.
running(s) == handle[s] > NoId /\ rt[handle[s]] = "running"

\* inspect_container raises APIError for an id the daemon does not know.
InspectRaises(s) == handle[s] > NoId /\ ~Exists(handle[s])

(***************************************************************************)
(* The contract: error levels, lifecycle points, clause classes.           *)
(***************************************************************************)
FATAL == 30

WARNING == 20

UNUSED == 10

LEVEL_NUMBERS_TO_NAMES == (FATAL :> "FATAL") @@ (WARNING :> "WARNING") @@ (UNUSED :> "UNUSED")

LEVEL_NAMES_TO_NUMBERS ==
  [n \in {LEVEL_NUMBERS_TO_NAMES[v] : v \in DOMAIN LEVEL_NUMBERS_TO_NAMES} |->
     CHOOSE v \in DOMAIN LEVEL_NUMBERS_TO_NAMES : LEVEL_NUMBERS_TO_NAMES[v] = n]

POST_STOP == 50

STOP == 40

POST_START == 30

START == 20

PRE_START == 10

_TIMELINE_Reversed == <<POST_STOP, STOP, POST_START, START, PRE_START>>

\* Tests will be executed in the order of lifecycle points.
_TIMELINE == <<PRE_START, START, POST_START, STOP, POST_STOP>>

_SINGULAR_POINTS_StartOnly == {START}

\* Singular points are lifecycle points that allow only one test.
_SINGULAR_POINTS == {START, STOP}

\* The keys are the names of _TIMELINE_NUMBERS_TO_NAMES in upper case with
\* '_' for ' '.
_TIMELINE_NAMES_TO_NUMBERS ==
  ("POST_STOP" :> POST_STOP) @@ ("STOP" :> STOP) @@ ("POST_START" :> POST_START)
    @@ ("START" :> START) @@ ("PRE_START" :> PRE_START)

\* Outcomes of a clause in a suite (ContractTestResult).
ERROR == "ERROR"

FAIL == "FAIL"

SKIP == "SKIP"

PASS == "PASS"

\* Exceptions of ContractValidator.__init__.
CircularDependencyError == "errors.CircularDependencyError"

ValueError == "ValueError"

AppstartAbort == "utils.AppstartAbort"

NoError == [type |-> NoExc, text |-> "", path |-> <<>>]

\* A clause class written in Python has no _conf_file; a hook clause has the
\* path of its yaml file.
NoConfFile == "none"

\* _DEFAULT_ATTRS, with the attributes a clause class must define itself.
ClauseClass(name, lifecycle_point, error_level) ==
  [lifecycle_point |-> lifecycle_point, error_level |-> error_level,
   tags |-> {name}, _conf_file |-> NoConfFile,
   dependencies |-> {}, dependents |-> {}, before |-> {}, after |-> {},
   _unresolved_dependencies |-> {}, _unresolved_dependents |-> {},
   _unresolved_before |-> {}, _unresolved_after |-> {}]

\* The class NewClause that _make_hook_clause_for_yaml builds from the
\* configuration of a hook.  The metaclass tags a class with the name of its
\* class statement, which is 'NewClause' for every hook; __name__ is set to the
\* name of the hook afterwards.
NewClause(hook_config) ==
  [lifecycle_point |-> _TIMELINE_NAMES_TO_NUMBERS[hook_config.lifecycle_point],
   error_level |-> LEVEL_NAMES_TO_NUMBERS[hook_config.error_level],
   tags |-> hook_config.tags \cup {"NewClause"},
   _conf_file |-> "conf.yaml",
   dependencies |-> {}, dependents |-> {}, before |-> {}, after |-> {},
   _unresolved_dependencies |-> hook_config.dependencies,
   _unresolved_dependents |-> hook_config.dependents,
   _unresolved_before |-> hook_config.before,
   _unresolved_after |-> hook_config.after]

\* No contract module is loaded: the sandbox is used on its own.
NoValidator ==
  /\ clauses = <<>>
  /\ contract = [p \in {} |-> <<>>]
  /\ added_clauses = {}
  /\ success_set = {}
  /\ _tags = {}
  /\ visited_classes = {}
  /\ recursion_stack = <<>>
  /\ pending = <<>>
  /\ todo = {}
  /\ built = "none"
  /\ error = NoError
  /\ threshold = WARNING
  /\ point = 1
  /\ pos = 1
  /\ res_success = TRUE
  /\ validation_passed = TRUE

\* stream_logs() has not been called: there is no log_streamer thread.
NoStreamer == [pc |-> "none", timeouts |-> 0]

\* stream_logs(stream=True): thread = threading.Thread(target=log_streamer);
\* thread.start().  The thread is at its first statement.
stream_logs == [pc |-> "inspect", timeouts |-> 0]

(***************************************************************************)
(* Initial state: a sandbox has been constructed, nothing is created.      *)
(***************************************************************************)
InitHist ==
  [calls |-> <<>>, stopFrom |-> "none", stopLeft |-> NoExc,
   handlerStopLeft |-> NoExc, carRaised |-> NoExc, startLeft |-> NoExc,
   stopInStart |-> FALSE, valStop |-> FALSE, pings |-> 0, seenRunning |-> {},
   made |-> NoId, sigInCreate |-> FALSE, sigDuring |-> FALSE,
   createExit |-> NoCreateExit,
   prevCall |-> "none", prevOutcome |-> "none", intr |-> FALSE,
   results |-> <<>>, executed |-> {}, log |-> <<>>, codes |-> <<>>,
   pre |-> [slot |-> "none", id |-> NoId, state |-> "none"], prevSlot |-> "none",
   dasSeen |-> "none", dasDown |-> FALSE, dumped |-> FALSE, probeOk |-> "none"]

\* ContainerSandbox.__init__: no container object yet, nothing in the daemon.
FreshSandbox ==
  /\ handle = [s \in Slots |-> NoObj]
  /\ rt = [i \in Ids |-> "absent"]
  /\ EXITING = FALSE
  /\ handler = "default"
  /\ prev = "default"
  /\ stack = <<>>
  /\ pc = "idle"
  /\ cur = "das"
  /\ idx = 1
  /\ attempt = 1
  /\ startExc = NoExc
  /\ valExc = NoExc
  /\ outcome = "none"
  /\ lastCall = "none"
  /\ starts = 0
  /\ stops = 0
  /\ events = 0
  /\ hist = InitHist
  /\ streamer = NoStreamer

InitSandbox ==
  /\ run_devappserver \in BOOLEAN
  /\ timeout \in 0..MaxTimeout
  /\ FreshSandbox
  /\ NoValidator

\* Bookkeeping at the start of a driver-level call.
NewCall(h) ==
  [h EXCEPT !.prevCall = lastCall, !.prevOutcome = outcome, !.intr = FALSE,
            !.carRaised = NoExc, !.startLeft = NoExc, !.stopInStart = FALSE,
            !.handlerStopLeft = NoExc, !.valStop = FALSE, !.pings = 0,
            !.calls = <<>>, !.seenRunning = {}, !.stopFrom = "none",
            !.stopLeft = NoExc, !.results = <<>>, !.executed = {},
            !.log = <<>>, !.codes = <<>>,
            !.dasSeen = "none", !.dasDown = FALSE, !.dumped = FALSE,
            !.probeOk = "none"]

In(frame, p) == stack # <<>> /\ Last(stack) = frame /\ pc = p

\* The environment does something the program did not ask for: a SIGINT, a
\* container that exits, a request the daemon refuses, a build that fails.
Misbehaves ==
  /\ events < MaxEvents
  /\ events' = events + 1

cfgVars == <<run_devappserver, timeout>>

(***************************************************************************)
(* ContainerSandbox.start() and create_and_run_containers().               *)
(***************************************************************************)
\* The first statement of create_and_run_containers.
CarEntry == IF run_devappserver THEN "build_das" ELSE "build_app"

\* The locals of create_and_run_containers, Container.create and
\* wait_for_start before their first assignment.
FreshLocals ==
  /\ cur' = "das"
  /\ attempt' = 1
  /\ prev' = "default"

\* The driver calls sandbox.start().
CallStart ==
  /\ stack = <<>>
  /\ starts < MaxStarts
  /\ starts' = starts + 1
  /\ lastCall' = "start"
  /\ SetCtl([Ctl EXCEPT !.stack = <<"start">>, !.pc = CarEntry,
                        !.hist = NewCall(hist)])
  /\ FreshLocals
  /\ UNCHANGED <<valVars, cfgVars, streamer, handle, rt, EXITING, handler, stops, events>>

\* build_devappserver_image(): the build succeeds, or
\* log_and_check_build_results raises AppstartAbort.
BuildDas ==
  /\ In("start", "build_das")
  /\ \E ok \in BOOLEAN :
       IF ok THEN events' = events /\ cur' = "das" /\ SetCtl(At(Ctl, "cr_install"))
       ELSE Misbehaves /\ cur' = cur /\ SetCtl(Throw(Ctl, BuildFailed))
  /\ UNCHANGED <<valVars, cfgVars, streamer, handle, rt, EXITING, handler, prev, attempt,
                 lastCall, starts, stops>>

\* app_image = self.image_name or self.build_app_image(): the image is at
\* hand (supplied or built), or the build fails with AppstartAbort.
BuildApp ==
  /\ In("start", "build_app")
  /\ \E ok \in BOOLEAN :
       IF ok THEN events' = events /\ cur' = "app" /\ SetCtl(At(Ctl, "cr_install"))
       ELSE Misbehaves /\ cur' = cur /\ SetCtl(Throw(Ctl, BuildFailed))
  /\ UNCHANGED <<valVars, cfgVars, streamer, handle, rt, EXITING, handler, prev, attempt,
                 lastCall, starts, stops>>

(***************************************************************************)
(* Container.create(), in the steps a SIGINT can fall between.             *)
(***************************************************************************)
InCreate == stack # <<>> /\ Last(stack) = "start"
            /\ pc \in {"cr_call", "cr_ret", "cr_restore", "cr_check"}

\* The main thread is inside dclient.create_container.
InCreateCall == stack # <<>> /\ Last(stack) = "start" /\ pc \in {"cr_call", "cr_ret"}

\* create() is left, normally or by exception e.
ExitCreate(k, e) ==
  [k EXCEPT !.hist.createExit =
              [exc |-> e, id |-> handle[cur], made |-> k.hist.made,
               sig |-> k.hist.sigInCreate, during |-> k.hist.sigDuring],
            !.hist.made = NoId, !.hist.sigInCreate = FALSE,
            !.hist.sigDuring = FALSE]

CreateInstall_NoHandler ==
  /\ In("start", "cr_install")
  /\ handle' = [handle EXCEPT ![cur] = NoId]
  /\ prev' = handler
  /\ handler' = handler
  /\ SetCtl([At(Ctl, "cr_call") EXCEPT !.hist.made = NoId, !.hist.sigInCreate = FALSE,
                                     !.hist.sigDuring = FALSE])
  /\ UNCHANGED <<valVars, cfgVars, streamer, rt, EXITING, cur, attempt, lastCall, starts, stops, events>>

\* self.x_container = Container(dclient); create():
\* prev = signal.signal(signal.SIGINT, sig_handler).
CreateInstall ==
  /\ In("start", "cr_install")
  /\ handle' = [handle EXCEPT ![cur] = NoId]
  /\ prev' = handler
  /\ handler' = "sig_handler"
  /\ SetCtl([At(Ctl, "cr_call") EXCEPT !.hist.made = NoId, !.hist.sigInCreate = FALSE,
                                     !.hist.sigDuring = FALSE])
  /\ UNCHANGED <<valVars, cfgVars, streamer, rt, EXITING, cur, attempt, lastCall, starts, stops, events>>

\* dclient.create_container: the daemon creates the container, or rejects the
\* request (APIError, turned into AppstartAbort; the handler is not restored).
CreateCall ==
  /\ In("start", "cr_call")
  /\ \/ /\ rt' = [rt EXCEPT ![FreshId] = "created"]
        /\ events' = events
        /\ SetCtl([At(Ctl, "cr_ret") EXCEPT !.hist.made = FreshId])
     \/ /\ rt' = rt
        /\ Misbehaves
        /\ SetCtl(Throw(ExitCreate(Ctl, CreateRejected), CreateRejected))
  /\ UNCHANGED <<valVars, cfgVars, streamer, handle, EXITING, handler, prev, cur, attempt,
                 lastCall, starts, stops>>

\* self._container_id = (...).get('Id')
CreateReturn ==
  /\ In("start", "cr_ret")
  /\ handle' = [handle EXCEPT ![cur] = hist.made]
  /\ SetCtl(At(Ctl, "cr_restore"))
  /\ UNCHANGED <<valVars, cfgVars, streamer, rt, EXITING, handler, prev, cur, attempt,
                 lastCall, starts, stops, events>>

\* signal.signal(signal.SIGINT, prev)
CreateRestore ==
  /\ In("start", "cr_restore")
  /\ handler' = prev
  /\ SetCtl(At(Ctl, "cr_check"))
  /\ UNCHANGED <<valVars, cfgVars, streamer, handle, rt, EXITING, prev, cur, attempt,
                 lastCall, starts, stops, events>>

\* if _EXITING: raise KeyboardInterrupt
CreateCheck ==
  /\ In("start", "cr_check")
  /\ IF EXITING
       THEN SetCtl(Throw(ExitCreate(Ctl, KeyboardInterrupt), KeyboardInterrupt))
       ELSE SetCtl(At(ExitCreate(Ctl, NoExc), "c_start"))
  /\ UNCHANGED <<valVars, cfgVars, streamer, handle, rt, EXITING, handler, prev, cur, attempt,
                 lastCall, starts, stops, events>>

\* Container.start(): the daemon starts the container or rejects the request
\* (APIError, turned into AppstartAbort).
ContainerStart ==
  /\ In("start", "c_start")
  /\ \/ /\ rt' = [rt EXCEPT ![handle[cur]] = "running"]
        /\ cur' = IF cur = "app" THEN "pinger" ELSE cur
        /\ attempt' = IF cur = "pinger" THEN 1 ELSE attempt
        /\ SetCtl(At(Ctl, CASE cur = "das" -> "build_app"
                            [] cur = "app" -> "cr_install"
                            [] cur = "pinger" -> "wfs_head"))
        /\ events' = events
     \/ /\ UNCHANGED <<rt, cur, attempt>>
        /\ Misbehaves
        /\ SetCtl(Throw(Ctl, StartRejected))
  /\ UNCHANGED <<valVars, cfgVars, streamer, handle, EXITING, handler, prev, lastCall, starts,
                 stops>>

(***************************************************************************)
(* ContainerSandbox.wait_for_start().                                      *)
(***************************************************************************)
\* hist.dasDown: the devappserver container was not running at some step of
\* wait_for_start.  hist.dasSeen: what the last call of
\* devappserver_container.running() in wait_for_start returned.
Waiting(k) ==
  [k EXCEPT !.hist.dasDown = @ \/ (run_devappserver /\ ~running("das"))]

Checked(k) ==
  [k EXCEPT !.hist.dasSeen = IF ~run_devappserver THEN @
                             ELSE IF running("das") THEN "running" ELSE "stopped"]

DevappserverStopped_Never == FALSE

\* self.run_devappserver and not self.devappserver_container.running()
DevappserverStopped == run_devappserver /\ ~running("das")

\* devappserver_container.stream_logs(stream=False), then
\* exit_loop_with_error('Devappserver stopped prematurely').
DumpAndExit(k) == Throw([k EXCEPT !.hist.dumped = TRUE], DasDied)

WaitHead_NoTimeout ==
  /\ In("start", "wfs_head")
  /\ IF DevappserverStopped
       THEN SetCtl(DumpAndExit(Checked(Waiting(Ctl))))
       ELSE SetCtl(At(Checked(Waiting(Ctl)), "wfs_ping"))
  /\ UNCHANGED <<valVars, cfgVars, streamer, handle, rt, EXITING, handler, prev, cur, attempt,
                 lastCall, starts, stops, events>>

\* Head of the loop: the timeout check, then the devappserver check.
WaitHead ==
  /\ In("start", "wfs_head")
  /\ IF attempt > timeout
       THEN SetCtl(Throw(Waiting(Ctl), TimedOut))
       ELSE IF DevappserverStopped
         THEN SetCtl(DumpAndExit(Checked(Waiting(Ctl))))
         ELSE SetCtl(At(Checked(Waiting(Ctl)), "wfs_ping"))
  /\ UNCHANGED <<valVars, cfgVars, streamer, handle, rt, EXITING, handler, prev, cur, attempt,
                 lastCall, starts, stops, events>>

\* hist.probeOk: a probe has succeeded, with the devappserver container (if
\* there is one) running or not at that moment.
Listening(k) ==
  [k EXCEPT !.hist.probeOk = IF DevappserverStopped THEN "das stopped" ELSE "ok"]

WaitPing_NoIncrement ==
  /\ In("start", "wfs_ping")
  /\ IF ~running("pinger")
       THEN attempt' = attempt /\ SetCtl(Throw(Waiting(Ctl), APIError))
       ELSE \E listening \in BOOLEAN :
              IF listening
                THEN /\ attempt' = attempt
                     /\ SetCtl([At(Listening(Waiting(Ctl)), "stream_logs")
                                  EXCEPT !.hist.pings = @ + 1])
                ELSE /\ attempt' = attempt
                     /\ SetCtl([At(Waiting(Ctl), "wfs_head") EXCEPT !.hist.pings = @ + 1])
  /\ UNCHANGED <<valVars, cfgVars, streamer, handle, rt, EXITING, handler, prev, cur, lastCall,
                 starts, stops, events>>

\* pinger_container.ping_application_container(): a docker exec in the pinger
\* container, which the daemon refuses when that container is not running.
\* A probe that succeeds ends the loop; after one that fails, attempt += 1 and
\* time.sleep(1).
WaitPing ==
  /\ In("start", "wfs_ping")
  /\ IF ~running("pinger")
       THEN attempt' = attempt /\ SetCtl(Throw(Waiting(Ctl), APIError))
       ELSE \E listening \in BOOLEAN :
              IF listening
                THEN /\ attempt' = attempt
                     /\ SetCtl([At(Listening(Waiting(Ctl)), "stream_logs")
                                  EXCEPT !.hist.pings = @ + 1])
                ELSE /\ attempt' = attempt + 1
                     /\ SetCtl([At(Waiting(Ctl), "wfs_head") EXCEPT !.hist.pings = @ + 1])
  /\ UNCHANGED <<valVars, cfgVars, streamer, handle, rt, EXITING, handler, prev, cur, lastCall,
                 starts, stops, events>>

\* self.app_container.stream_logs(); create_and_run_containers and start()
\* return.
StreamLogs ==
  /\ In("start", "stream_logs")
  /\ streamer' = stream_logs
  /\ SetCtl(LeaveStart(Ctl, NoExc))
  /\ UNCHANGED <<valVars, cfgVars, handle, rt, EXITING, handler, prev, cur, attempt,
                 lastCall, starts, stops, events>>

(***************************************************************************)
(* ContainerSandbox.stop() / stop_and_remove_containers().                 *)
(***************************************************************************)
\* The driver calls sandbox.stop().
CallStop ==
  /\ stack = <<>>
  /\ stops < MaxStops
  /\ stops' = stops + 1
  /\ lastCall' = "stop"
  /\ SetCtl(EnterStop([Ctl EXCEPT !.hist = NewCall(hist)], "driver"))
  /\ FreshLocals
  /\ UNCHANGED <<valVars, cfgVars, streamer, handle, rt, EXITING, handler, starts, events>>

\* The loop moves to the next container, or stop() returns after the last.
NextCont(k) ==
  IF k.idx = Len(containers_to_remove) THEN LeaveStop(k, NoExc)
  ELSE [k EXCEPT !.idx = @ + 1, !.pc = "st_check"]

Called(k, op, i) == [k EXCEPT !.hist.calls = Append(@, <<op, i>>)]

\* 'if cont and cont.running()'
StopCheck ==
  /\ In("stop", "st_check")
  /\ LET s == containers_to_remove[idx]
     IN IF InspectRaises(s) THEN SetCtl(Throw(Ctl, APIError))
        ELSE IF running(s)
          THEN SetCtl([At(Ctl, "st_kill") EXCEPT !.hist.seenRunning = @ \cup {handle[s]}])
          ELSE SetCtl(NextCont(Ctl))
  /\ UNCHANGED <<valVars, cfgVars, streamer, handle, rt, EXITING, handler, prev, cur, attempt,
                 lastCall, starts, stops, events>>

\* cont.kill(): Container.kill, dclient.kill. The daemon stops a running
\* container, does nothing to one that has exited, and raises APIError for an
\* id it does not know.
StopKill ==
  /\ In("stop", "st_kill")
  /\ LET s == containers_to_remove[idx]
         i == handle[s]
     IN IF i = NoId THEN rt' = rt /\ SetCtl(At(Ctl, "st_remove"))
        ELSE IF ~Exists(i) THEN rt' = rt /\ SetCtl(Throw(Called(Ctl, "kill", i), APIError))
        ELSE /\ rt' = [rt EXCEPT ![i] = IF @ = "running" THEN "exited" ELSE @]
             /\ SetCtl(At(Called(Ctl, "kill", i), "st_remove"))
  /\ UNCHANGED <<valVars, cfgVars, streamer, handle, EXITING, handler, prev, cur, attempt,
                 lastCall, starts, stops, events>>

StopRemove_KeepId ==
  /\ In("stop", "st_remove")
  /\ LET s == containers_to_remove[idx]
         i == handle[s]
     IN IF i = NoId THEN UNCHANGED <<rt, handle>> /\ SetCtl(NextCont(Ctl))
        ELSE IF ~Exists(i) \/ rt[i] = "running"
          THEN UNCHANGED <<rt, handle>> /\ SetCtl(Throw(Called(Ctl, "remove", i), APIError))
        ELSE /\ rt' = [rt EXCEPT ![i] = "removed"]
             /\ handle' = handle
             /\ SetCtl(NextCont(Called(Ctl, "remove", i)))
  /\ UNCHANGED <<valVars, cfgVars, streamer, EXITING, handler, prev, cur, attempt,
                 lastCall, starts, stops, events>>

\* cont.remove(): Container.remove, dclient.remove_container, then
\* self._container_id = None. The daemon refuses to remove a running
\* container.
StopRemove ==
  /\ In("stop", "st_remove")
  /\ LET s == containers_to_remove[idx]
         i == handle[s]
     IN IF i = NoId THEN UNCHANGED <<rt, handle>> /\ SetCtl(NextCont(Ctl))
        ELSE IF ~Exists(i) \/ rt[i] = "running"
          THEN UNCHANGED <<rt, handle>> /\ SetCtl(Throw(Called(Ctl, "remove", i), APIError))
        ELSE /\ rt' = [rt EXCEPT ![i] = "removed"]
             /\ handle' = [handle EXCEPT ![s] = NoId]
             /\ SetCtl(NextCont(Called(Ctl, "remove", i)))
  /\ UNCHANGED <<valVars, cfgVars, streamer, EXITING, handler, prev, cur, attempt,
                 lastCall, starts, stops, events>>

\* cont.kill() where dclient.kill raises APIError: the daemon refuses the
\* request, as for a container that has stopped running since the check.
\* Container.kill catches nothing and neither does the loop.
StopKillRefused ==
  /\ In("stop", "st_kill")
  /\ Misbehaves
  /\ LET s == containers_to_remove[idx]
         i == handle[s]
     IN /\ i # NoId
        /\ SetCtl(Throw(Called(Ctl, "kill", i), APIError))
  /\ UNCHANGED <<valVars, cfgVars, streamer, handle, rt, EXITING, handler, prev, cur,
                 attempt, lastCall, starts, stops>>

\* cont.remove() where dclient.remove_container raises APIError: the daemon
\* refuses the request.  _container_id keeps its value.
StopRemoveRefused ==
  /\ In("stop", "st_remove")
  /\ Misbehaves
  /\ LET s == containers_to_remove[idx]
         i == handle[s]
     IN /\ i # NoId
        /\ SetCtl(Throw(Called(Ctl, "remove", i), APIError))
  /\ UNCHANGED <<valVars, cfgVars, streamer, handle, rt, EXITING, handler, prev, cur,
                 attempt, lastCall, starts, stops>>

(***************************************************************************)
(* The environment: container processes and the operator.                  *)
(***************************************************************************)
\* The process of a running container exits on its own.
ContainerExits ==
  /\ Misbehaves
  /\ \E i \in Ids : rt[i] = "running" /\ rt' = [rt EXCEPT ![i] = "exited"]
  /\ UNCHANGED <<valVars, cfgVars, streamer, handle, EXITING, handler, prev, stack, pc, cur, idx,
                 attempt, startExc, valExc, outcome, lastCall, starts, stops,
                 hist>>

\* SIGINT is delivered. sig_handler records it in _EXITING; Python's default
\* handler raises KeyboardInterrupt in the main thread, wherever it is.
Sigint ==
  /\ Misbehaves
  /\ IF handler = "sig_handler"
       THEN /\ EXITING' = TRUE
            /\ SetCtl([Ctl EXCEPT !.hist.sigInCreate = @ \/ InCreateCall,
                                  !.hist.sigDuring = @ \/ InCreate])
       ELSE /\ stack # <<>>
            /\ EXITING' = EXITING
            /\ LET k0 == [Ctl EXCEPT !.hist.intr = TRUE,
                                     !.hist.sigInCreate = @ \/ InCreateCall,
                                     !.hist.sigDuring = @ \/ InCreate]
                   k1 == IF InCreate THEN ExitCreate(k0, KeyboardInterrupt) ELSE k0
               IN SetCtl(Throw(k1, KeyboardInterrupt))
  /\ UNCHANGED <<valVars, cfgVars, streamer, handle, rt, handler, prev, cur, attempt, lastCall,
                 starts, stops>>

(***************************************************************************)
(* The sandbox driven directly: start() and stop() in any order.           *)
(***************************************************************************)
NextSandbox ==
  \/ CallStart
  \/ BuildDas
  \/ BuildApp
  \/ CreateInstall
  \/ CreateCall
  \/ CreateReturn
  \/ CreateRestore
  \/ CreateCheck
  \/ ContainerStart
  \/ WaitHead
  \/ WaitPing
  \/ StreamLogs
  \/ CallStop
  \/ StopCheck
  \/ StopKill
  \/ StopRemove
  \/ ContainerExits
  \/ Sigint

SpecSandbox == InitSandbox /\ [][NextSandbox]_vars

\* start() and stop() in any order, with a daemon that may also refuse to
\* kill or to remove a container.
NextTeardown ==
  \/ NextSandbox
  \/ StopKillRefused
  \/ StopRemoveRefused

SpecTeardown == InitSandbox /\ [][NextTeardown]_vars

\* start() called by a driver that never calls stop() itself, with a quiet
\* operator; containers may exit on their own.  The main thread goes on
\* running: the daemon answers every request, and time.sleep(1) returns.
NextWait ==
  \/ CallStart
  \/ BuildDas
  \/ BuildApp
  \/ CreateInstall
  \/ CreateCall
  \/ CreateReturn
  \/ CreateRestore
  \/ CreateCheck
  \/ ContainerStart
  \/ WaitHead
  \/ WaitPing
  \/ StreamLogs
  \/ StopCheck
  \/ StopKill
  \/ StopRemove
  \/ ContainerExits

SpecWait ==
  /\ InitSandbox
  /\ [][NextWait]_vars
  /\ WF_vars(WaitHead)
  /\ WF_vars(WaitPing)

(***************************************************************************)
(* Container objects used on their own (as container_test.py does): the    *)
(* caller creates, starts, kills and removes them in any order.            *)
(***************************************************************************)
MaxCreates == 3

\* Container.kill(): what it does to the daemon, the calls it makes and the
\* exception it raises, for the Container object in slot s.
kill(s) ==
  LET i == handle[s]
  IN IF i = NoId
       THEN [rt |-> rt, handle |-> handle, calls |-> <<>>, exc |-> NoExc]
     ELSE IF ~Exists(i)
       THEN [rt |-> rt, handle |-> handle, calls |-> <<<<"kill", i>>>>, exc |-> APIError]
     ELSE [rt |-> [rt EXCEPT ![i] = IF @ = "running" THEN "exited" ELSE @],
           handle |-> handle, calls |-> <<<<"kill", i>>>>, exc |-> NoExc]

remove_KeepId(s) ==
  LET i == handle[s]
  IN IF i = NoId
       THEN [rt |-> rt, handle |-> handle, calls |-> <<>>, exc |-> NoExc]
     ELSE IF ~Exists(i) \/ rt[i] = "running"
       THEN [rt |-> rt, handle |-> handle, calls |-> <<<<"remove", i>>>>, exc |-> APIError]
     ELSE [rt |-> [rt EXCEPT ![i] = "removed"], handle |-> handle,
           calls |-> <<<<"remove", i>>>>, exc |-> NoExc]

\* Container.remove(): remove_container, then self._container_id = None.
remove(s) ==
  LET i == handle[s]
  IN IF i = NoId
       THEN [rt |-> rt, handle |-> handle, calls |-> <<>>, exc |-> NoExc]
     ELSE IF ~Exists(i) \/ rt[i] = "running"
       THEN [rt |-> rt, handle |-> handle, calls |-> <<<<"remove", i>>>>, exc |-> APIError]
     ELSE [rt |-> [rt EXCEPT ![i] = "removed"],
           handle |-> [handle EXCEPT ![s] = NoId],
           calls |-> <<<<"remove", i>>>>, exc |-> NoExc]

\* Container.create() without a SIGINT: the id of the new container is stored.
create(s) ==
  [rt |-> [rt EXCEPT ![FreshId] = "created"],
   handle |-> [handle EXCEPT ![s] = FreshId],
   calls |-> <<<<"create", FreshId>>>>, exc |-> NoExc]

\* Container.start(): dclient.start, whose APIError becomes AppstartAbort.
start(s) ==
  LET i == handle[s]
  IN IF i = NoId \/ ~Exists(i)
       THEN [rt |-> rt, handle |-> handle, calls |-> <<<<"start", i>>>>, exc |-> StartRejected]
     ELSE [rt |-> [rt EXCEPT ![i] = "running"], handle |-> handle,
           calls |-> <<<<"start", i>>>>, exc |-> NoExc]

\* The caller invokes method op of the Container object in slot s; eff is what
\* the method does.
HandleCall(op, s, eff) ==
  /\ stack = <<>>
  /\ lastCall' = op
  /\ rt' = eff.rt
  /\ handle' = eff.handle
  /\ SetCtl([Ctl EXCEPT
              !.outcome = IF eff.exc = NoExc THEN "ok" ELSE eff.exc,
              !.hist = [NewCall(hist) EXCEPT
                          !.calls = eff.calls,
                          !.prevSlot = hist.pre.slot,
                          !.pre = [slot |-> s, id |-> handle[s],
                                   state |-> IF handle[s] = NoId THEN "none"
                                             ELSE rt[handle[s]]]]])
  /\ UNCHANGED <<valVars, cfgVars, streamer, EXITING, handler, prev, cur, attempt,
                 starts, stops, events>>

HandleCreate ==
  \E s \in Slots :
    /\ handle[s] = NoId
    /\ Cardinality({i \in Ids : rt[i] # "absent"}) < MaxCreates
    /\ HandleCall("create", s, create(s))

HandleStart == \E s \in Slots : HandleCall("start", s, start(s))

HandleKill == \E s \in Slots : HandleCall("kill", s, kill(s))

HandleRemove == \E s \in Slots : HandleCall("remove", s, remove(s))

\* Three Container objects have been constructed; none has been created.
InitContainer ==
  /\ run_devappserver = FALSE
  /\ timeout = 1
  /\ rt = [i \in Ids |-> "absent"]
  /\ EXITING = FALSE
  /\ handler = "default"
  /\ prev = "default"
  /\ stack = <<>>
  /\ pc = "idle"
  /\ cur = "das"
  /\ idx = 1
  /\ attempt = 1
  /\ startExc = NoExc
  /\ valExc = NoExc
  /\ outcome = "none"
  /\ lastCall = "none"
  /\ starts = 0
  /\ stops = 0
  /\ events = 0
  /\ hist = InitHist
  /\ streamer = NoStreamer
  /\ handle = [s \in Slots |-> NoId]
  /\ NoValidator

NextContainer ==
  \/ HandleCreate
  \/ HandleStart
  \/ HandleKill
  \/ HandleRemove
  \/ ContainerExits

SpecContainer == InitContainer /\ [][NextContainer]_vars

(***************************************************************************)
(* Container.stream_logs(stream=True): the log_streamer thread of one      *)
(* Container object, running beside a caller that creates, starts, kills   *)
(* and removes the container.                                              *)
(***************************************************************************)
MaxReadTimeouts == 2

\* The container whose logs are followed (the sandbox follows the
\* application container).
Streamed == "app"

\* The caller's operations on the followed Container object.
StreamedCreate ==
  /\ handle[Streamed] = NoId
  /\ Cardinality({i \in Ids : rt[i] # "absent"}) < MaxCreates
  /\ HandleCall("create", Streamed, create(Streamed))

StreamedStart == HandleCall("start", Streamed, start(Streamed))

StreamedKill == HandleCall("kill", Streamed, kill(Streamed))

StreamedRemove == HandleCall("remove", Streamed, remove(Streamed))

\* The caller invokes stream_logs() on the Container object.
HandleStreamLogs ==
  /\ stack = <<>>
  /\ streamer.pc = "none"
  /\ streamer' = stream_logs
  /\ UNCHANGED <<valVars, cfgVars, handle, rt, EXITING, handler, prev, stack, pc,
                 cur, idx, attempt, startExc, valExc, outcome, lastCall, starts,
                 stops, events, hist>>

\* What only the thread changes.
StreamerStep ==
  UNCHANGED <<valVars, cfgVars, handle, rt, EXITING, handler, prev, stack, pc,
              cur, idx, attempt, startExc, valExc, outcome, lastCall, starts,
              stops, events, hist>>

\* name = self._dclient.inspect_container(self._container_id).get('Name'),
\* outside the try statement: the APIError for a container the daemon does
\* not know ends the thread.
StreamerInspect ==
  /\ streamer.pc = "inspect"
  /\ streamer' = [streamer EXCEPT !.pc = IF handle[Streamed] > NoId /\ Exists(handle[Streamed])
                                           THEN "logs" ELSE "raised"]
  /\ StreamerStep

\* How the thread ends when logs() is called for the id of a container the
\* daemon does not know (APIError: break) or for the None of a handle whose
\* container has been removed (the client library then raises APIError, or an
\* error of its own that no except clause catches).
Ends == IF handle[Streamed] = NoId THEN {"returned", "raised"} ELSE {"returned"}

StreamerLogs_EndOnTimeout ==
  /\ streamer.pc = "logs"
  /\ IF handle[Streamed] > NoId /\ Exists(handle[Streamed])
       THEN /\ streamer.timeouts < MaxReadTimeouts
            /\ streamer' = [streamer EXCEPT !.pc = "returned", !.timeouts = @ + 1]
       ELSE \E end \in Ends : streamer' = [streamer EXCEPT !.pc = end]
  /\ StreamerStep

\* One round of 'while True': self._dclient.logs(container=self._container_id,
\* stream=True) and the loop over its lines.  For a container the daemon
\* knows, the lines are logged until the connection is idle for too long
\* (ReadTimeout: pass, and the loop starts the collection again); for one it
\* does not know, the APIError breaks the loop and the thread ends.
StreamerLogs ==
  /\ streamer.pc = "logs"
  /\ IF handle[Streamed] > NoId /\ Exists(handle[Streamed])
       THEN /\ streamer.timeouts < MaxReadTimeouts
            /\ streamer' = [streamer EXCEPT !.timeouts = @ + 1]
       ELSE \E end \in Ends : streamer' = [streamer EXCEPT !.pc = end]
  /\ StreamerStep

\* The generator that logs() returned is exhausted: the daemon closes the
\* stream of a container that is not running.  The for loop ends without an
\* exception, so neither except clause is entered.
StreamerLogsEnd ==
  /\ streamer.pc = "logs"
  /\ handle[Streamed] > NoId /\ Exists(handle[Streamed])
  /\ rt[handle[Streamed]] # "running"
  /\ streamer' = [streamer EXCEPT !.pc = "while"]
  /\ StreamerStep

\* while True: the next round calls logs() again.
StreamerAgain ==
  /\ streamer.pc = "while"
  /\ streamer' = [streamer EXCEPT !.pc = "logs"]
  /\ StreamerStep

InitStream == InitContainer

NextStream ==
  \/ StreamedCreate
  \/ StreamedStart
  \/ StreamedKill
  \/ StreamedRemove
  \/ HandleStreamLogs
  \/ StreamerInspect
  \/ StreamerLogs
  \/ ContainerExits

SpecStream == InitStream /\ [][NextStream]_vars

\* A driver that calls start() once and stop() in any order, the application
\* container's log_streamer thread running beside the main thread; containers
\* may exit on their own.  The thread is scheduled again and again.
StartOnce == starts = 0 /\ CallStart

NextFollow ==
  \/ StartOnce
  \/ BuildDas
  \/ BuildApp
  \/ CreateInstall
  \/ CreateCall
  \/ CreateReturn
  \/ CreateRestore
  \/ CreateCheck
  \/ ContainerStart
  \/ WaitHead
  \/ WaitPing
  \/ StreamLogs
  \/ CallStop
  \/ StopCheck
  \/ StopKill
  \/ StopRemove
  \/ ContainerExits
  \/ StreamerInspect
  \/ StreamerLogs
  \/ StreamerLogsEnd
  \/ StreamerAgain

SpecFollow ==
  /\ InitSandbox
  /\ [][NextFollow]_vars
  /\ WF_vars(StreamerInspect)
  /\ WF_vars(StreamerLogs)
  /\ WF_vars(StreamerLogsEnd)
  /\ WF_vars(StreamerAgain)

(***************************************************************************)
(* ContractValidator.__init__: _normalize_clause_dict, _construct_contract *)
(* and _add_clause.  Python iterates dictionaries and sets in an order the *)
(* program does not control, so every loop takes its elements in any order.*)
(***************************************************************************)
\* The names a clause class refers to before normalization.
Unresolved(cls) ==
  cls._unresolved_after \cup cls._unresolved_before
    \cup cls._unresolved_dependents \cup cls._unresolved_dependencies

\* _resolve_name: clause_dict[name]; a class stands for itself under its name.
_resolve_name(clause_dict, name) ==
  IF name \in DOMAIN clause_dict THEN name ELSE "KeyError"

resolve_Nothing(clause_dict, resolved, unresolved) == resolved

\* resolve(resolved, unresolved)
resolve(clause_dict, resolved, unresolved) ==
  resolved \cup {_resolve_name(clause_dict, n) : n \in unresolved}

NormalizedFor_AfterIsBefore(cd, c) ==
  LET own == [cd[c] EXCEPT
                !.after = resolve(cd, @, cd[c]._unresolved_after),
                !.before = resolve(cd, @, cd[c]._unresolved_before),
                !.dependents = resolve(cd, @, cd[c]._unresolved_dependents),
                !.dependencies = resolve(cd, @, cd[c]._unresolved_dependencies)]
      cd1 == [cd EXCEPT ![c] = [own EXCEPT !.before = @ \cup own.after]]
  IN [x \in DOMAIN cd1 |->
        IF x \in own.dependents
          THEN [cd1[x] EXCEPT !.dependencies = @ \cup {c}]
          ELSE cd1[x]]

\* One iteration of the loop of _normalize_clause_dict, for clause c: the four
\* resolutions, then c is added to the dependencies of its dependents and to
\* the 'before' of the clauses in its 'after'.
NormalizedFor(cd, c) ==
  LET own == [cd[c] EXCEPT
                !.after = resolve(cd, @, cd[c]._unresolved_after),
                !.before = resolve(cd, @, cd[c]._unresolved_before),
                !.dependents = resolve(cd, @, cd[c]._unresolved_dependents),
                !.dependencies = resolve(cd, @, cd[c]._unresolved_dependencies)]
      cd1 == [cd EXCEPT ![c] = own]
      cd2 == [x \in DOMAIN cd1 |->
                IF x \in own.dependents
                  THEN [cd1[x] EXCEPT !.dependencies = @ \cup {c}]
                  ELSE cd1[x]]
  IN [x \in DOMAIN cd2 |->
        IF x \in own.after
          THEN [cd2[x] EXCEPT !.before = @ \cup {c}]
          ELSE cd2[x]]

\* for unused_name, clause in clause_dict.iteritems(): one clause is
\* normalized, or one of its names cannot be resolved (AppstartAbort).  After
\* the last clause __init__ goes on to _construct_contract.
NormalizeClause ==
  /\ built = "normalizing"
  /\ \E c \in todo :
       IF \E n \in Unresolved(clauses[c]) : _resolve_name(clauses, n) = "KeyError"
         THEN /\ built' = "failed"
              /\ error' = [type |-> AppstartAbort, text |-> "could not resolve clause",
                           path |-> <<>>]
              /\ UNCHANGED <<clauses, todo>>
         ELSE /\ clauses' = NormalizedFor(clauses, c)
              /\ todo' = IF todo = {c} THEN DOMAIN clauses ELSE todo \ {c}
              /\ built' = IF todo = {c} THEN "constructing" ELSE built
              /\ error' = error
  /\ UNCHANGED <<sbVars, runVars, contract, added_clauses, visited_classes,
                 recursion_stack, pending>>

\* display_loop(stack, cls), the names that the message joins with '->'.
display_loop_WholeStack(stack_, cls) == Append(stack_, cls)

display_loop(stack_, cls) ==
  LET first == CHOOSE i \in 1..Len(stack_) :
                 stack_[i] = cls /\ \A j \in 1..(i-1) : stack_[j] # cls
  IN Append(SubSeq(stack_, first, Len(stack_)), cls)

\* The traversal state that a call of _add_clause changes.
Dfs ==
  [visited_classes |-> visited_classes, recursion_stack |-> recursion_stack,
   pending |-> pending, built |-> built, error |-> error]

SetDfs(r) ==
  /\ visited_classes' = r.visited_classes
  /\ recursion_stack' = r.recursion_stack
  /\ pending' = r.pending
  /\ built' = r.built
  /\ error' = r.error

Raise(r, e) == [r EXCEPT !.built = "failed", !.error = e]

ToVisit_NoBefore(c) == clauses[c].dependencies

\* clause_class.dependencies | clause_class.before
ToVisit(c) == clauses[c].dependencies \cup clauses[c].before

AlreadyAdded_Never(clause_class) == FALSE

\* Base case: the clause has been added already.
AlreadyAdded(clause_class) == clause_class \in added_clauses

_add_clause_NeverForgets(r, clause_class) ==
  IF clause_class \in r.visited_classes \cup added_clauses
    THEN Raise(r, [type |-> CircularDependencyError,
                   text |-> "Circular dependency was detected",
                   path |-> Append(r.recursion_stack, clause_class)])
  ELSE [r EXCEPT !.visited_classes = @ \cup {clause_class},
                 !.recursion_stack = Append(@, clause_class),
                 !.pending = Append(@, ToVisit(clause_class))]

\* _add_clause(clause_class, visited_classes, recursion_stack), from its first
\* statement to the head of its for loop.
_add_clause(r, clause_class) ==
  IF AlreadyAdded(clause_class) THEN r
  ELSE IF clause_class \in r.visited_classes
    THEN Raise(r, [type |-> CircularDependencyError,
                   text |-> "Circular dependency was detected",
                   path |-> display_loop(r.recursion_stack, clause_class)])
  ELSE [r EXCEPT !.visited_classes = @ \cup {clause_class},
                 !.recursion_stack = Append(@, clause_class),
                 !.pending = Append(@, ToVisit(clause_class))]

\* _construct_contract: the next clause of the dictionary is added with a
\* fresh visited set and stack; after the last one __init__ sets _tags and
\* returns.
ConstructContract ==
  /\ built = "constructing"
  /\ recursion_stack = <<>>
  /\ IF todo = {}
       THEN /\ built' = "ok"
            /\ _tags' = {}
            /\ UNCHANGED <<todo, visited_classes, recursion_stack, pending, error>>
       ELSE \E c \in todo :
              /\ todo' = todo \ {c}
              /\ _tags' = _tags
              /\ SetDfs(_add_clause([Dfs EXCEPT !.visited_classes = {}], c))
  /\ UNCHANGED <<sbVars, classVars, contract, added_clauses, success_set,
                 threshold, point, pos, res_success, validation_passed>>

AddClauseLoop_NoPhaseCheck ==
  /\ built = "constructing"
  /\ recursion_stack # <<>>
  /\ Last(pending) # {}
  /\ \E dep \in Last(pending) :
       SetDfs(_add_clause([Dfs EXCEPT !.pending[Len(pending)] = @ \ {dep}], dep))
  /\ UNCHANGED <<sbVars, classVars, runVars, contract, added_clauses, todo>>

\* for dep in clause_class.dependencies | clause_class.before: the lifecycle
\* check, then the recursive call.
AddClauseLoop ==
  /\ built = "constructing"
  /\ recursion_stack # <<>>
  /\ Last(pending) # {}
  /\ \E dep \in Last(pending) :
       LET clause_class == Last(recursion_stack)
           r == [Dfs EXCEPT !.pending[Len(pending)] = @ \ {dep}]
       IN IF clauses[dep].lifecycle_point > clauses[clause_class].lifecycle_point
            THEN SetDfs(Raise(r, [type |-> CircularDependencyError,
                                  text |-> "Clause cannot have earlier lifecycle_point",
                                  path |-> <<clause_class, dep>>]))
            ELSE SetDfs(_add_clause(r, dep))
  /\ UNCHANGED <<sbVars, classVars, runVars, contract, added_clauses, todo>>

AddClauseAppend_Prepend ==
  /\ built = "constructing"
  /\ recursion_stack # <<>>
  /\ Last(pending) = {}
  /\ LET clause_class == Last(recursion_stack)
         lp == clauses[clause_class].lifecycle_point
         clause_list == IF lp \in DOMAIN contract THEN contract[lp] ELSE <<>>
         r == [Dfs EXCEPT !.visited_classes = @ \ {clause_class},
                          !.recursion_stack = Front(@),
                          !.pending = Front(@)]
     IN IF lp \in _SINGULAR_POINTS /\ Len(clause_list) # 0
          THEN /\ SetDfs(Raise(r, [type |-> ValueError,
                                   text |-> "Cannot add more than one clause",
                                   path |-> <<>>]))
               /\ contract' = (lp :> clause_list) @@ contract
               /\ added_clauses' = added_clauses
          ELSE /\ SetDfs(r)
               /\ contract' = (lp :> (<<clause_class>> \o clause_list)) @@ contract
               /\ added_clauses' = added_clauses \cup {clause_class}
  /\ UNCHANGED <<sbVars, classVars, runVars, todo>>

\* After the loop: the clause leaves the visited set and the stack, is
\* instantiated and appended to the list of its lifecycle point, unless that
\* point is singular and already has a clause (ValueError).
AddClauseAppend ==
  /\ built = "constructing"
  /\ recursion_stack # <<>>
  /\ Last(pending) = {}
  /\ LET clause_class == Last(recursion_stack)
         lp == clauses[clause_class].lifecycle_point
         clause_list == IF lp \in DOMAIN contract THEN contract[lp] ELSE <<>>
         r == [Dfs EXCEPT !.visited_classes = @ \ {clause_class},
                          !.recursion_stack = Front(@),
                          !.pending = Front(@)]
     IN IF lp \in _SINGULAR_POINTS /\ Len(clause_list) # 0
          THEN /\ SetDfs(Raise(r, [type |-> ValueError,
                                   text |-> "Cannot add more than one clause",
                                   path |-> <<>>]))
               /\ contract' = (lp :> clause_list) @@ contract
               /\ added_clauses' = added_clauses
          ELSE /\ SetDfs(r)
               /\ contract' = (lp :> Append(clause_list, clause_class)) @@ contract
               /\ added_clauses' = added_clauses \cup {clause_class}
  /\ UNCHANGED <<sbVars, classVars, runVars, todo>>

(***************************************************************************)
(* Contract modules: the clause classes handed to ContractValidator.       *)
(***************************************************************************)
MaxEdges == 2

ClauseNames == {"A", "B", "C"}

References == {"_unresolved_dependencies", "_unresolved_dependents",
               "_unresolved_before", "_unresolved_after"}

\* A declaration <<c, attr, n>>: clause c names clause n in attribute attr.
Declarations(names) == names \X References \X names

RECURSIVE UpTo(_, _)
UpTo(S, n) ==
  IF n = 0 THEN {{}}
  ELSE LET less == UpTo(S, n - 1) IN less \cup {d \cup {e} : d \in less, e \in S}

Named(decl, c, attr) == {d[3] : d \in {e \in decl : e[1] = c /\ e[2] = attr}}

\* The module whose clauses have the given lifecycle points, error levels and
\* declarations.
Module(names, lp, lvl, decl) ==
  [c \in names |->
     [ClauseClass(c, lp[c], lvl[c]) EXCEPT
        !._unresolved_dependencies = Named(decl, c, "_unresolved_dependencies"),
        !._unresolved_dependents = Named(decl, c, "_unresolved_dependents"),
        !._unresolved_before = Named(decl, c, "_unresolved_before"),
        !._unresolved_after = Named(decl, c, "_unresolved_after")]]

\* ContractValidator.__init__ has built its sandbox and the clause dictionary
\* of the classes of the contract module, and has come to the given stage.
ValidatorAt(module, stage) ==
  /\ clauses = module
  /\ contract = <<>>
  /\ added_clauses = {}
  /\ success_set = {}
  /\ _tags = {}
  /\ visited_classes = {}
  /\ recursion_stack = <<>>
  /\ pending = <<>>
  /\ todo = DOMAIN module
  /\ built = stage
  /\ error = NoError
  /\ threshold = WARNING
  /\ point = 1
  /\ pos = 1
  /\ res_success = TRUE
  /\ validation_passed = TRUE

\* A validator without hooks, about to call _normalize_clause_dict.
NewValidator(module) == ValidatorAt(module, "normalizing")

InitResolve ==
  /\ run_devappserver = FALSE
  /\ timeout = 1
  /\ FreshSandbox
  /\ \E lp \in [ClauseNames -> {PRE_START, START, POST_START}],
        decl \in UpTo(Declarations(ClauseNames), MaxEdges) :
       NewValidator(Module(ClauseNames, lp, [c \in ClauseNames |-> UNUSED], decl))

NextResolve ==
  \/ NormalizeClause
  \/ ConstructContract
  \/ AddClauseLoop
  \/ AddClauseAppend

SpecResolve == InitResolve /\ [][NextResolve]_vars

\* Modules of three clauses at any of the five lifecycle points (the clause
\* names are interchangeable, so A is the earliest and C the latest), with
\* fewer declarations.
InitSingular ==
  /\ run_devappserver = FALSE
  /\ timeout = 1
  /\ FreshSandbox
  /\ \E lp \in {f \in [ClauseNames -> {_TIMELINE[i] : i \in DOMAIN _TIMELINE}] :
                   f["A"] <= f["B"] /\ f["B"] <= f["C"]},
        decl \in UpTo(Declarations(ClauseNames), MaxEdges - 1) :
       NewValidator(Module(ClauseNames, lp, [c \in ClauseNames |-> UNUSED], decl))

SpecSingular == InitSingular /\ [][NextResolve]_vars

(***************************************************************************)
(* ContractValidator.validate(): the sandbox is started, the suites of the *)
(* lifecycle points are run in the order of _TIMELINE, and the sandbox is  *)
(* stopped in the finally clause.                                          *)
(***************************************************************************)
\* The tag lists a caller passes to validate().
TagInputs == {{}} \cup {{c} : c \in DOMAIN clauses}

CanValidate_BeforeConstruction == built # "failed"

\* validate() is a method of the validator that __init__ has returned.
CanValidate == built = "ok"

\* The driver calls validate(tags, threshold): _tags is updated, the threshold
\* is converted to its number, and the try block calls sandbox.start().
CallValidate ==
  /\ stack = <<>>
  /\ CanValidate
  /\ starts < MaxStarts
  /\ starts' = starts + 1
  /\ lastCall' = "validate"
  /\ \E tags \in TagInputs, name \in DOMAIN LEVEL_NAMES_TO_NUMBERS :
       /\ _tags' = _tags \cup tags
       /\ threshold' = LEVEL_NAMES_TO_NUMBERS[name]
  /\ validation_passed' = TRUE
  /\ point' = 1
  /\ pos' = 1
  /\ res_success' = TRUE
  /\ SetCtl([Ctl EXCEPT !.stack = <<"validate", "start">>, !.pc = CarEntry,
                        !.hist = NewCall(hist)])
  /\ FreshLocals
  /\ UNCHANGED <<classVars, resolveVars, success_set, cfgVars, streamer, handle, rt,
                 EXITING, handler, stops, events>>

\* for point in _TIMELINE: a point without clauses is passed over, the suite
\* of a point with clauses is handed to test_runner.run (which makes a new
\* ContractTestResult); after the last point the finally clause is entered.
ValidateLoop ==
  /\ In("validate", "v_phase")
  /\ IF point > Len(_TIMELINE)
       THEN /\ SetCtl(ValidateFinally(Ctl, NoExc))
            /\ UNCHANGED <<point, pos, res_success>>
       ELSE IF _TIMELINE[point] \notin DOMAIN contract
         THEN /\ point' = point + 1
              /\ SetCtl(Ctl)
              /\ UNCHANGED <<pos, res_success>>
         ELSE /\ pos' = 1
              /\ res_success' = TRUE
              /\ point' = point
              /\ SetCtl(At(Ctl, "v_suite"))
  /\ UNCHANGED <<classVars, resolveVars, success_set, _tags, threshold,
                 validation_passed, cfgVars, streamer, handle, rt, EXITING, handler,
                 prev, cur, attempt, lastCall, starts, stops, events>>

update_error_stats_Above(success, error_level, threshold_) ==
  IF error_level > threshold_ THEN FALSE ELSE success

\* ContractTestResult.__update_error_stats: the effect on self.success.
update_error_stats(success, error_level, threshold_) ==
  IF error_level >= threshold_ THEN FALSE ELSE success

DependencyClasses_WithBefore(c) == clauses[c].dependencies \cup clauses[c].before

\* for dependency_class in clause.dependencies: the clauses whose success the
\* wrapper of clause c asks for.
DependencyClasses(c) == clauses[c].dependencies

SkipReason_IgnoreTags(c) ==
  IF \E d \in DependencyClasses(c) : d \notin success_set THEN "dependency"
  ELSE "run"

\* _wrapper: the SkipTest of _dependency_and_tag_wrapper, or "run" when func is
\* applied.
SkipReason(c) ==
  IF \E d \in DependencyClasses(c) : d \notin success_set THEN "dependency"
  ELSE IF _tags # {} /\ clauses[c].tags \cap _tags = {} THEN "tags"
  ELSE "run"

\* The result object records outcome o for clause c; why is "run" or the
\* reason of the SkipTest.  The log also notes the lifecycle point whose suite
\* is running and whether validate() is inside its try block, after
\* sandbox.start() has returned and before the finally clause.
Reported(k, c, o, why) ==
  [k EXCEPT !.hist.results = (c :> o) @@ @,
            !.hist.log = Append(@, [clause |-> c, outcome |-> o, reason |-> why,
                                    point |-> _TIMELINE[point],
                                    inTry |-> k.stack = <<"validate">> /\ ~k.hist.valStop])]

\* Exit statuses of the command of a hook clause.
MaxReturnCode == 1

ReturnCodes == 0..MaxReturnCode

evaluate_clause_AnyCode(app_container_id, return_code) ==
  IF app_container_id <= NoId THEN ERROR ELSE PASS

\* NewClause.evaluate_clause of a hook clause: the id of the application
\* container goes into the environment of the command (None is not a string:
\* TypeError), and assertEqual(return_code, 0) decides.
evaluate_clause(app_container_id, return_code) ==
  IF app_container_id <= NoId THEN ERROR
  ELSE IF return_code = 0 THEN PASS ELSE FAIL

\* What run_test of clause c may do: a hook clause runs its command, the
\* evaluate_clause of a Python clause class passes, fails an assertion or
\* raises something else.
Evaluations(c) ==
  IF clauses[c]._conf_file # NoConfFile
    THEN {[outcome |-> evaluate_clause(handle["app"], rc), code |-> <<rc>>] :
            rc \in ReturnCodes}
    ELSE {[outcome |-> o, code |-> <<>>] : o \in {PASS, FAIL, ERROR}}

failfast_On == TRUE

\* result.failfast = self.failfast: the runner is constructed without
\* failfast, so a failure does not stop the suite.
failfast == FALSE

\* ContractTestResult.addSkip: self.success is left alone.
addSkip_Counted(success, error_level, threshold_) ==
  IF error_level >= threshold_ THEN FALSE ELSE success

addSkip(success, error_level, threshold_) == success

\* The suite runs its next clause: the wrapper skips it (addSkip), or its
\* evaluate_clause runs and passes (addSuccess), fails an assertion
\* (addFailure) or raises something else (addError).
EvaluateClause ==
  /\ In("validate", "v_suite")
  /\ pos <= Len(contract[_TIMELINE[point]])
  /\ LET c == contract[_TIMELINE[point]][pos]
     IN IF SkipReason(c) # "run"
          THEN /\ SetCtl(Reported(Ctl, c, SKIP, SkipReason(c)))
               /\ pos' = pos + 1
               /\ res_success' = addSkip(res_success, clauses[c].error_level, threshold)
               /\ UNCHANGED success_set
          ELSE \E e \in Evaluations(c) :
                 LET o == e.outcome
                 IN /\ SetCtl(Reported([Ctl EXCEPT !.hist.executed = @ \cup {c},
                                                   !.hist.codes = (c :> e.code) @@ @],
                                       c, o, "run"))
                    /\ pos' = IF failfast /\ o \in {FAIL, ERROR}
                                THEN Len(contract[_TIMELINE[point]]) + 1
                                ELSE pos + 1
                    /\ success_set' = IF o = PASS THEN success_set \cup {c} ELSE success_set
                    /\ res_success' = IF o = PASS THEN res_success
                                      ELSE update_error_stats(res_success,
                                             clauses[c].error_level, threshold)
  /\ UNCHANGED <<classVars, resolveVars, _tags, threshold, point,
                 validation_passed, cfgVars, streamer, handle, rt, EXITING, handler,
                 prev, cur, attempt, lastCall, starts, stops, events>>

\* test_runner.run returns: validation_passed = validation_passed and
\* res.success, and the loop goes to the next point.
SuiteReturn ==
  /\ In("validate", "v_suite")
  /\ pos > Len(contract[_TIMELINE[point]])
  /\ validation_passed' = (validation_passed /\ res_success)
  /\ point' = point + 1
  /\ SetCtl(At(Ctl, "v_phase"))
  /\ UNCHANGED <<classVars, resolveVars, success_set, _tags, threshold, pos,
                 res_success, cfgVars, streamer, handle, rt, EXITING, handler, prev, cur,
                 attempt, lastCall, starts, stops, events>>

\* Modules of two clauses: clause A of any error level, before the start of
\* the application or after it, and clause B, a WARNING clause after the
\* start, which may name A in one of its attributes.
ValidatedModules ==
  {Module({"A", "B"}, ("A" :> lpA) @@ ("B" :> POST_START),
          ("A" :> lvlA) @@ ("B" :> WARNING), decl) :
     lpA \in {PRE_START, POST_START},
     lvlA \in DOMAIN LEVEL_NUMBERS_TO_NAMES,
     decl \in UpTo({"B"} \X References \X {"A"}, 1)}

InitValidate ==
  /\ run_devappserver = FALSE
  /\ timeout = 1
  /\ FreshSandbox
  /\ \E module \in ValidatedModules : NewValidator(module)

\* validate() called repeatedly on one validator, with a quiet operator and
\* containers that do not exit on their own.
NextValidate ==
  \/ NormalizeClause
  \/ ConstructContract
  \/ AddClauseLoop
  \/ AddClauseAppend
  \/ CallValidate
  \/ ValidateLoop
  \/ EvaluateClause
  \/ SuiteReturn
  \/ BuildApp
  \/ CreateInstall
  \/ CreateCall
  \/ CreateReturn
  \/ CreateRestore
  \/ CreateCheck
  \/ ContainerStart
  \/ WaitHead
  \/ WaitPing
  \/ StreamLogs
  \/ StopCheck
  \/ StopKill
  \/ StopRemove

SpecValidate == InitValidate /\ [][NextValidate]_vars

\* The module of the interrupted runs: B depends on A, both after the start.
InterruptedModule ==
  Module({"A", "B"}, [c \in {"A", "B"} |-> POST_START],
         ("A" :> FATAL) @@ ("B" :> WARNING),
         {<<"B", "_unresolved_dependencies", "A">>})

InitInterrupt ==
  /\ run_devappserver = FALSE
  /\ timeout = 1
  /\ FreshSandbox
  /\ NewValidator(InterruptedModule)

\* validate() with SIGINT and container exits arriving at any point.
NextInterrupt ==
  \/ NextValidate
  \/ ContainerExits
  \/ Sigint

SpecInterrupt == InitInterrupt /\ [][NextInterrupt]_vars

\* Scenario D: A before the start, B after the start and depending on A, C
\* after the start with after = {B}.
ScenarioD ==
  Module(ClauseNames,
         ("A" :> PRE_START) @@ ("B" :> POST_START) @@ ("C" :> POST_START),
         [c \in ClauseNames |-> UNUSED],
         {<<"B", "_unresolved_dependencies", "A">>, <<"C", "_unresolved_after", "B">>})

\* Modules of two clauses that refer to no other clause, at any two
\* lifecycle points (the clause names are interchangeable, so A is the
\* earlier one).
PhasedModules ==
  {Module({"A", "B"}, lp, [c \in {"A", "B"} |-> UNUSED], {}) :
     lp \in {f \in [{"A", "B"} -> {_TIMELINE[i] : i \in DOMAIN _TIMELINE}] :
               f["A"] < f["B"]}}

InitOrder ==
  /\ run_devappserver = FALSE
  /\ timeout = 1
  /\ FreshSandbox
  /\ \E module \in PhasedModules \cup {ScenarioD} : NewValidator(module)

SpecOrder == InitOrder /\ [][NextValidate]_vars

\* The configurations of a hook B that runs after the start of the
\* application: any error level, tagged or not, depending on A or not.
HookConfigs ==
  [name : {"B"}, lifecycle_point : {"POST_START"},
   error_level : DOMAIN LEVEL_NAMES_TO_NUMBERS,
   tags : {{}, {"B"}},
   dependencies : {{}, {"A"}}, dependents : {{}}, before : {{}}, after : {{}}]

\* Modules of one clause class A, evaluated before the start, and one hook.
HookModules ==
  {("A" :> ClauseClass("A", PRE_START, UNUSED)) @@ (hook_config.name :> NewClause(hook_config)) :
     hook_config \in HookConfigs}

InitHook ==
  /\ run_devappserver = FALSE
  /\ timeout = 1
  /\ FreshSandbox
  /\ \E module \in HookModules : NewValidator(module)

SpecHook == InitHook /\ [][NextValidate]_vars

(***************************************************************************)
(* ContractValidator.__init__ with hook configuration files: the hook      *)
(* clauses are added to the clause dictionary before it is normalized.     *)
(***************************************************************************)
MaxHooks == 1

\* The configuration files found under validator_tests: hooks named like a
\* clause class ("A") or not ("H"), which depend on nothing or on a clause
\* that does not exist ("Z").
HookFiles ==
  [name : {"A", "H"}, lifecycle_point : {"POST_START"},
   error_level : {"UNUSED"}, tags : {{}},
   dependencies : {{}, {"Z"}}, dependents : {{}}, before : {{}}, after : {{}}]

HookLists == UNION {[1..n -> HookFiles] : n \in 0..MaxHooks}

\* for hook in hook_clauses: a hook whose name is in the dictionary already
\* aborts, any other hook is entered under its name.
RECURSIVE AddHooks(_, _)
AddHooks(clause_dict, hook_clauses) ==
  IF hook_clauses = <<>> THEN [clause_dict |-> clause_dict, twice |-> FALSE]
  ELSE LET hook_config == Head(hook_clauses)
       IN IF hook_config.name \in DOMAIN clause_dict
            THEN [clause_dict |-> clause_dict, twice |-> TRUE]
            ELSE AddHooks(clause_dict @@ (hook_config.name :> NewClause(hook_config)),
                          Tail(hook_clauses))

\* _make_hook_clauses and the loop over its result, for the configuration
\* files of the application directory.
MakeHookClauses ==
  /\ built = "hooks"
  /\ \E hook_clauses \in HookLists :
       LET added == AddHooks(clauses, hook_clauses)
       IN IF added.twice
            THEN /\ built' = "failed"
                 /\ error' = [type |-> AppstartAbort,
                              text |-> "Cannot use same clause name twice",
                              path |-> <<>>]
                 /\ UNCHANGED <<clauses, todo>>
            ELSE /\ clauses' = added.clause_dict
                 /\ todo' = DOMAIN added.clause_dict
                 /\ built' = "normalizing"
                 /\ error' = error
  /\ UNCHANGED <<sbVars, runVars, contract, added_clauses, visited_classes,
                 recursion_stack, pending>>

\* Modules of two clause classes, A before or at the start and B at the
\* start, where a clause may depend on a clause of the module or on a clause
\* that does not exist ("Z").
DefinedModules ==
  {Module({"A", "B"}, ("A" :> lpA) @@ ("B" :> START),
          [c \in {"A", "B"} |-> UNUSED], decl) :
     lpA \in {PRE_START, START},
     decl \in UpTo({"A", "B"} \X {"_unresolved_dependencies"} \X {"A", "B", "Z"},
                   MaxEdges)}

InitDefinition ==
  /\ run_devappserver = FALSE
  /\ timeout = 1
  /\ FreshSandbox
  /\ \E module \in DefinedModules : ValidatorAt(module, "hooks")

NextDefinition ==
  \/ MakeHookClauses
  \/ NextValidate

SpecDefinition == InitDefinition /\ [][NextDefinition]_vars

\* Modules of four clause classes of one lifecycle point in which any clause
\* may name any other one: A and B name their dependencies, C and D the
\* clauses that must run before them.  With hooks from the configuration
\* files.
GraphNames == {"A", "B", "C", "D"}

Arcs == {a \in GraphNames \X GraphNames : a[1] # a[2]}

ArcReference(c) ==
  IF c \in {"A", "B"} THEN "_unresolved_dependencies" ELSE "_unresolved_before"

GraphModules ==
  {Module(GraphNames, [c \in GraphNames |-> POST_START],
          [c \in GraphNames |-> UNUSED],
          {<<a[1], ArcReference(a[1]), a[2]>> : a \in arcs}) :
     arcs \in UpTo(Arcs, MaxEdges + 2)}

InitGraph ==
  /\ run_devappserver = FALSE
  /\ timeout = 1
  /\ FreshSandbox
  /\ \E module \in GraphModules : ValidatorAt(module, "hooks")

NextGraph ==
  \/ MakeHookClauses
  \/ NextResolve

SpecGraph == InitGraph /\ [][NextGraph]_vars

(***************************************************************************)
(* Properties of the construction of the contract.                         *)
(***************************************************************************)
\* The clauses that must be evaluated before clause x, after normalization.
Prerequisites(x) == clauses[x].dependencies \cup clauses[x].before

RECURSIVE Closure(_, _)
Closure(S, n) ==
  IF n = 0 THEN S
  ELSE Closure(S \cup UNION {Prerequisites(y) : y \in S}, n - 1)

\* The clauses reachable from x along one or more edges.
Reaches(x) == Closure(Prerequisites(x), Cardinality(DOMAIN clauses))

Cyclic == \E x \in DOMAIN clauses : x \in Reaches(x)

PhaseConsistent ==
  \A x \in DOMAIN clauses : \A y \in Prerequisites(x) :
    clauses[y].lifecycle_point <= clauses[x].lifecycle_point

SingularOk ==
  \A p \in _SINGULAR_POINTS :
    Cardinality({c \in DOMAIN clauses : clauses[c].lifecycle_point = p}) <= 1

\* __init__ has returned or raised after normalizing every clause.
Constructed == built \in {"ok", "failed"} /\ error.type # AppstartAbort

InPlan(c) ==
  /\ clauses[c].lifecycle_point \in DOMAIN contract
  /\ \E i \in 1..Len(contract[clauses[c].lifecycle_point]) :
       contract[clauses[c].lifecycle_point][i] = c

PlanIndex(c) ==
  CHOOSE i \in 1..Len(contract[clauses[c].lifecycle_point]) :
    contract[clauses[c].lifecycle_point][i] = c

TimelineIndex(p) == CHOOSE i \in 1..Len(_TIMELINE) : _TIMELINE[i] = p

\* y is in an earlier bucket than x, or earlier in the list of the same bucket.
PlannedBefore(y, x) ==
  /\ InPlan(y) /\ InPlan(x)
  /\ \/ TimelineIndex(clauses[y].lifecycle_point) < TimelineIndex(clauses[x].lifecycle_point)
     \/ /\ clauses[y].lifecycle_point = clauses[x].lifecycle_point
        /\ PlanIndex(y) < PlanIndex(x)

PlanRespectsEdges ==
  \A x \in DOMAIN clauses : \A y \in Prerequisites(x) : PlannedBefore(y, x)

\* C1 as stated: for every module whose normalized graph is acyclic and
\* phase-consistent, construction yields a plan in which every clause comes
\* after all of its dependencies and before-targets.
C1_AcyclicModuleYieldsOrderedPlan ==
  (Constructed /\ ~Cyclic /\ PhaseConsistent)
    => built = "ok" /\ PlanRespectsEdges

\* C1, amended: for every module whose normalized graph is acyclic and
\* phase-consistent and that has at most one clause in START and at most one
\* in STOP, construction yields a plan in which every clause comes after all
\* of its dependencies and before-targets.
C1_AcyclicSingularModuleYieldsOrderedPlan ==
  (Constructed /\ ~Cyclic /\ PhaseConsistent /\ SingularOk)
    => built = "ok" /\ PlanRespectsEdges

C1_Witness ==
  /\ built = "ok"
  /\ PlanRespectsEdges
  /\ \E x \in DOMAIN clauses :
       /\ clauses[x].before # {}
       /\ clauses[x].dependencies # {}
       /\ clauses[x].before # clauses[x].dependencies
       /\ \A y \in Prerequisites(x) :
            clauses[y].lifecycle_point = clauses[x].lifecycle_point

\* The path of the error names a walk along edges of the graph that returns to
\* the clause it started from.
PathIsCycle(path) ==
  /\ Len(path) >= 2
  /\ path[1] = path[Len(path)]
  /\ \A i \in 1..(Len(path) - 1) : path[i+1] \in Prerequisites(path[i])

\* C4 as stated: for every module whose normalized graph has a directed cycle,
\* construction raises CircularDependencyError and the path in its message
\* begins and ends with the same clause name.
C4_CycleRaisesCircularDependencyError ==
  (Constructed /\ Cyclic)
    => /\ built = "failed"
       /\ error.type = CircularDependencyError
       /\ Len(error.path) >= 2
       /\ error.path[1] = error.path[Len(error.path)]

\* C4, amended: for every module whose normalized graph has a directed cycle,
\* construction fails and yields no plan; the error is CircularDependencyError
\* when at most one clause is in START and at most one in STOP, and its path
\* begins and ends with the same clause name (and follows the cycle) when in
\* addition no clause has a prerequisite of a later lifecycle point.
C4_CycleFailsAndCyclePathWhenPhaseConsistent ==
  (Constructed /\ Cyclic)
    => /\ built = "failed"
       /\ SingularOk => error.type = CircularDependencyError
       /\ (SingularOk /\ PhaseConsistent) => PathIsCycle(error.path)

C4_Witness ==
  /\ built = "failed"
  /\ Cyclic /\ SingularOk /\ PhaseConsistent
  /\ error.type = CircularDependencyError
  /\ Len(error.path) = 3
  /\ error.path[1] = error.path[3]
  /\ error.path[1] # error.path[2]
  /\ added_clauses # {}

\* The error of the phase-ordering check: the code raises it as a
\* CircularDependencyError whose message names the edge.
IsPhaseOrderError(e) ==
  /\ e.type = CircularDependencyError
  /\ e.text = "Clause cannot have earlier lifecycle_point"

IsDuplicateSingularClauseError(e) ==
  /\ e.type = ValueError
  /\ e.text = "Cannot add more than one clause"

\* The number of clauses that the plan holds for lifecycle point p.
Planned(p) == IF p \in DOMAIN contract THEN Len(contract[p]) ELSE 0

\* Two clauses of the module are in START, or two are in STOP.
TwoInStartOrStop ==
  \E p \in {START, STOP} :
    Cardinality({c \in DOMAIN clauses : clauses[c].lifecycle_point = p}) >= 2

\* C17 as stated: a plan never holds more than one clause in START or in
\* STOP; a module with two clauses in START (or in STOP) is rejected with the
\* duplicate-singular-clause error; any number of clauses may share
\* PRE_START, POST_START or POST_STOP.
C17_TwoSingularClausesRaiseDuplicateError ==
  /\ \A p \in {START, STOP} : Planned(p) <= 1
  /\ Constructed =>
       /\ TwoInStartOrStop => (built = "failed" /\ IsDuplicateSingularClauseError(error))
       /\ ~TwoInStartOrStop => ~IsDuplicateSingularClauseError(error)

\* C17, amended: a plan never holds more than one clause in START or in
\* STOP; a module with two clauses in START (or in STOP) is rejected, with
\* the duplicate-singular-clause error unless a cycle or a prerequisite of a
\* later phase is detected first; any number of clauses may share PRE_START,
\* POST_START or POST_STOP.
C17_TwoSingularClausesAreRejected ==
  /\ \A p \in {START, STOP} : Planned(p) <= 1
  /\ Constructed =>
       /\ TwoInStartOrStop =>
            /\ built = "failed"
            /\ (~Cyclic /\ PhaseConsistent) => IsDuplicateSingularClauseError(error)
       /\ ~TwoInStartOrStop => ~IsDuplicateSingularClauseError(error)
       /\ (~TwoInStartOrStop /\ ~Cyclic /\ PhaseConsistent) =>
            /\ built = "ok"
            /\ \A c \in DOMAIN clauses : InPlan(c)

C17_Witness ==
  /\ built = "failed"
  /\ IsDuplicateSingularClauseError(error)
  /\ Planned(STOP) = 1
  /\ Cardinality({c \in DOMAIN clauses : clauses[c].lifecycle_point = STOP}) = 2
  /\ Planned(PRE_START) = 1
  /\ ~Cyclic /\ PhaseConsistent

\* _normalize_clause_dict has returned.
Normalized ==
  built \in {"constructing", "ok", "failed"} /\ error.type # AppstartAbort

ValidateLeft == pc = "idle" /\ lastCall = "validate"

Result(c) == IF c \in DOMAIN hist.results THEN hist.results[c] ELSE "none"

\* C2: in any validate() run, a clause with a dependency that did not PASS in
\* that run is reported SKIP and its evaluate_clause is not executed.
C2_UnmetDependencyIsSkipped ==
  \A x \in DOMAIN hist.results : \A y \in clauses[x].dependencies :
    Result(y) # PASS => (Result(x) = SKIP /\ x \notin hist.executed)

C7_StopBeforeValidateLeaves ==
  ValidateLeft => (hist.valStop /\ hist.stopFrom = "validate")

C7_Witness ==
  /\ ValidateLeft
  /\ outcome = KeyboardInterrupt
  /\ hist.startLeft = NoExc
  /\ hist.results # <<>>
  /\ hist.valStop
  /\ hist.stopFrom = "validate"
  /\ hist.stopLeft = NoExc

\* The clauses of the plan, and how often the log of the run names one.
PlanClauses == {c \in DOMAIN clauses : InPlan(c)}

Occurrences(c) == Cardinality({i \in 1..Len(hist.log) : hist.log[i].clause = c})

\* sandbox.start() has returned to validate() and no SIGINT has arrived.
StartedUninterrupted == ValidateLeft /\ hist.startLeft = NoExc /\ ~hist.intr

\* C12: in every validate() run in which the sandbox starts and no interrupt
\* occurs, validate() returns and every clause of the plan has received
\* exactly one outcome (PASS, FAIL, ERROR or SKIP), whatever the outcomes of
\* the other clauses; no clause ever receives two outcomes in one run.
C12_EveryClauseGetsOneOutcome ==
  /\ \A c \in DOMAIN clauses : Occurrences(c) <= 1
  /\ StartedUninterrupted =>
       /\ outcome = "ok"
       /\ \A c \in PlanClauses :
            Occurrences(c) = 1 /\ Result(c) \in {PASS, FAIL, ERROR, SKIP}

C12_Witness ==
  /\ StartedUninterrupted
  /\ Len(hist.log) = 2
  /\ hist.log[1].outcome \in {FAIL, ERROR}
  /\ clauses[hist.log[1].clause].error_level = FATAL
  /\ hist.log[1].point # hist.log[2].point
  /\ hist.log[2].outcome = SKIP
  /\ ~validation_passed

\* The order of the lifecycle phases.
PhaseOrder == <<PRE_START, START, POST_START, STOP, POST_STOP>>

PhaseIndex(p) == CHOOSE i \in 1..Len(PhaseOrder) : PhaseOrder[i] = p

\* C13: validate() evaluates every clause in the suite of its own phase and
\* the phases in the order PRE_START, START, POST_START, STOP, POST_STOP: when
\* a clause receives its outcome every clause of every earlier phase has
\* received one; and every outcome is produced after sandbox.start() has
\* returned and before sandbox.stop() is called.
C13_PhasesInOrderBetweenStartAndStop ==
  \A j \in 1..Len(hist.log) :
    /\ hist.log[j].point = clauses[hist.log[j].clause].lifecycle_point
    /\ hist.log[j].inTry
    /\ \A i \in 1..(j-1) :
         PhaseIndex(hist.log[i].point) <= PhaseIndex(hist.log[j].point)
    /\ \A c \in PlanClauses :
         PhaseIndex(clauses[c].lifecycle_point) < PhaseIndex(hist.log[j].point)
           => \E i \in 1..(j-1) : hist.log[i].clause = c

C13_Witness ==
  /\ ValidateLeft /\ outcome = "ok"
  /\ hist.valStop /\ hist.stopFrom = "validate"
  /\ Len(hist.log) = 2
  /\ hist.log[1].point = STOP /\ hist.log[1].outcome = FAIL
  /\ hist.log[2].point = POST_STOP /\ hist.log[2].outcome = PASS

\* The module of the validator is scenario D.
IsScenarioD ==
  /\ DOMAIN clauses = ClauseNames
  /\ \A c \in ClauseNames :
       /\ clauses[c].lifecycle_point = ScenarioD[c].lifecycle_point
       /\ Unresolved(clauses[c]) = Unresolved(ScenarioD[c])

\* Clause y has received its outcome when x receives its own.
LoggedBefore(y, x) ==
  \A j \in 1..Len(hist.log) :
    hist.log[j].clause = x => \E i \in 1..(j-1) : hist.log[i].clause = y

\* C14 as stated: with A (PRE_START), B (POST_START, dependencies = {A}) and
\* C (POST_START, after = {B}), A receives its outcome first, and B receives
\* its outcome before C.
C14_ScenarioD_BThenC ==
  IsScenarioD =>
    /\ LoggedBefore("A", "B") /\ LoggedBefore("A", "C")
    /\ LoggedBefore("B", "C")

\* C14, amended: with A (PRE_START), B (POST_START, dependencies = {A}) and
\* C (POST_START, after = {B}), A receives its outcome first, and C receives
\* its outcome before B.
C14_ScenarioD_CThenB ==
  IsScenarioD =>
    /\ LoggedBefore("A", "B") /\ LoggedBefore("A", "C")
    /\ LoggedBefore("C", "B")

C14_Witness ==
  /\ IsScenarioD
  /\ ValidateLeft /\ outcome = "ok"
  /\ Len(hist.log) = 3
  /\ hist.log[1].clause = "A" /\ hist.log[1].outcome = PASS
  /\ hist.log[2].clause = "C" /\ hist.log[2].outcome = FAIL
  /\ hist.log[3].clause = "B" /\ hist.log[3].outcome = PASS

\* C15: a clause X with Y in its 'after' set receives its outcome before Y,
\* and a clause X with Y in its 'before' set receives its outcome after Y;
\* when the sandbox has started and the run is not interrupted both have
\* received one.
C15_AfterMeansEarlierBeforeMeansLater ==
  \A x \in PlanClauses : \A y \in PlanClauses :
    /\ y \in clauses[x].after => LoggedBefore(x, y)
    /\ y \in clauses[x].before => LoggedBefore(y, x)
    /\ (StartedUninterrupted /\ y \in clauses[x].after \cup clauses[x].before)
         => Occurrences(x) = 1 /\ Occurrences(y) = 1

C15_Witness ==
  /\ ValidateLeft /\ outcome = "ok"
  /\ clauses["B"]._unresolved_after = {"A"}
  /\ Len(hist.log) = 2
  /\ hist.log[1].clause = "B" /\ hist.log[1].outcome = FAIL
  /\ hist.log[2].clause = "A" /\ hist.log[2].outcome = PASS

\* C18: a SKIP never turns the result of validate() to False, whatever the
\* error level of the skipped clause and whatever the threshold: the success
\* flag of a suite and of the run is cleared only when a clause has ended
\* FAIL or ERROR, and a run whose clauses all ended PASS or SKIP returns True.
C18_SkipNeverFailsRun ==
  /\ (~res_success \/ ~validation_passed) =>
       \E i \in 1..Len(hist.log) : hist.log[i].outcome \in {FAIL, ERROR}
  /\ (ValidateLeft /\ outcome = "ok"
        /\ \A i \in 1..Len(hist.log) : hist.log[i].outcome \in {PASS, SKIP})
       => validation_passed

C18_Witness ==
  /\ ValidateLeft /\ outcome = "ok"
  /\ threshold = UNUSED
  /\ Len(hist.log) = 2
  /\ hist.log[1].outcome = SKIP /\ hist.log[1].reason = "tags"
  /\ clauses[hist.log[1].clause].error_level = FATAL
  /\ hist.log[2].outcome = SKIP /\ hist.log[2].reason = "dependency"
  /\ validation_passed

\* The hook clauses of the module.
Hooks == {c \in DOMAIN clauses : clauses[c]._conf_file # NoConfFile}

C20_TagFilterSelectsClauses ==
  \A i \in 1..Len(hist.log) :
    LET e == hist.log[i]
        matches == clauses[e.clause].tags \cap _tags # {}
    IN /\ (_tags # {} /\ e.outcome # SKIP) => matches
       /\ (_tags # {} /\ ~matches) => (e.outcome = SKIP /\ e.clause \notin hist.executed)
       /\ e.reason = "tags" => (_tags # {} /\ ~matches /\ e.outcome = SKIP)
       /\ _tags = {} => e.reason # "tags"

C20_Witness ==
  /\ ValidateLeft /\ outcome = "ok"
  /\ Cardinality(_tags) = 1
  /\ Len(hist.log) = 2
  /\ hist.log[1].outcome = SKIP /\ hist.log[1].reason = "tags"
  /\ hist.log[2].outcome = PASS
  /\ clauses[hist.log[2].clause].tags \cap _tags # {}

\* The tags of clause c pass the tag filter of the validator.
TagsMatch(c) == _tags = {} \/ clauses[c].tags \cap _tags # {}

\* C22: before/after edges only order the clauses.  A clause is skipped only
\* for a dependency that has not passed in the run or for a tag mismatch; a
\* clause whose dependencies have all passed in the run and whose tags match
\* is evaluated, whatever the outcomes (FAIL, ERROR, SKIP) of the clauses in
\* its before set.
C22_BeforeAfterEdgesDoNotGate ==
  \A j \in 1..Len(hist.log) :
    LET x == hist.log[j].clause
        met == \A d \in clauses[x].dependencies :
                 \E i \in 1..(j-1) : hist.log[i].clause = d /\ hist.log[i].outcome = PASS
    IN /\ hist.log[j].outcome = SKIP => (~met \/ ~TagsMatch(x))
       /\ (met /\ TagsMatch(x)) => (hist.log[j].outcome # SKIP /\ x \in hist.executed)

C22_Witness ==
  /\ ValidateLeft /\ outcome = "ok"
  /\ \E j \in 1..Len(hist.log) : \E i \in 1..(j-1) :
       /\ hist.log[i].clause \in clauses[hist.log[j].clause].before
       /\ hist.log[i].outcome \in {FAIL, ERROR}
       /\ hist.log[j].outcome = PASS
       /\ hist.log[j].clause \in hist.executed

\* Every name that a clause of the dictionary refers to is a clause of it.
NamesResolve ==
  \A c \in DOMAIN clauses : Unresolved(clauses[c]) \subseteq DOMAIN clauses

NoContainerYet ==
  /\ starts = 0
  /\ \A i \in Ids : rt[i] = "absent"
  /\ \A s \in Slots : handle[s] = NoObj

\* C26: every error of the contract definition (a name that does not
\* resolve, a clause name used twice, a cycle, a prerequisite in a later
\* phase, two clauses in a singular phase) is raised while the validator is
\* constructed, before any container is created or started: when the error
\* is raised no container exists and validate() has not been called, and a
\* validator whose validate() has been called has a definition without any of
\* these defects.
C26_DefinitionErrorsPrecedeContainers ==
  /\ error # NoError => (built = "failed" /\ NoContainerYet)
  /\ ~NoContainerYet =>
       /\ built = "ok" /\ error = NoError
       /\ NamesResolve /\ ~Cyclic /\ PhaseConsistent /\ SingularOk

C26_Witness ==
  /\ built = "failed"
  /\ error.type = AppstartAbort
  /\ error.text = "Cannot use same clause name twice"
  /\ "B" \in DOMAIN clauses
  /\ NoContainerYet

\* C28: every clause of the contract, hook clauses included, carries the
\* name it has in the clause dictionary among its tags, so that validate()
\* with the name of a clause as its only tag selects that clause: the clause
\* is not skipped for its tags.
C28_ClauseTaggedWithItsName ==
  \A i \in 1..Len(hist.log) :
    LET c == hist.log[i].clause
    IN _tags = {c} => (c \in clauses[c].tags /\ hist.log[i].reason # "tags")

\* C30: dependency gating in a validate() run uses only the outcomes of that
\* run, also when validate() is called again on the same validator: a clause
\* is evaluated in a run only if each of its dependencies has passed earlier
\* in that run, and a dependency that passed in an earlier run and does not
\* pass in this one leaves its dependents skipped.
C30_GatingUsesOnlyOutcomesOfTheRun ==
  \A j \in 1..Len(hist.log) :
    LET x == hist.log[j].clause
    IN \A d \in clauses[x].dependencies :
         LET passed == \E i \in 1..(j-1) :
                         hist.log[i].clause = d /\ hist.log[i].outcome = PASS
         IN /\ (hist.log[j].outcome # SKIP \/ x \in hist.executed) => passed
            /\ (d \in success_set /\ ~passed) =>
                 (hist.log[j].outcome = SKIP /\ x \notin hist.executed)

\* C31: the tag filter of a validate() call is exactly the tags passed to
\* that call, whatever tags earlier calls on the validator were given:
\* whenever validate() can be called, the call without tags runs with an
\* empty filter (and so skips no clause for its tags), and the call with the
\* tags U runs with the filter U.
C31_FilterIsTheTagsOfTheCall ==
  (ENABLED CallValidate) =>
    \A U \in TagInputs : ENABLED (CallValidate /\ _tags' = U)

(***************************************************************************)
(* Properties of the sandbox.                                              *)
(***************************************************************************)
StartFailed == pc = "idle" /\ lastCall = "start" /\ outcome # "ok"

\* C5: when start() fails, no container created by the sandbox still exists
\* in the runtime (running or merely created) at the moment the error leaves
\* start().
C5_NoContainerLeftAfterFailedStart ==
  StartFailed => \A i \in Ids : ~Exists(i)

\* C6 as stated: whenever create_and_run_containers raises, start() calls
\* stop() and the exception that leaves start() is the one that was raised.
C6_OriginalExceptionLeavesStart ==
  (pc = "idle" /\ lastCall = "start" /\ hist.carRaised # NoExc)
    => hist.stopInStart /\ hist.startLeft = hist.carRaised

\* C6, amended: whenever create_and_run_containers raises, start() calls
\* stop() before any exception leaves start(); the exception that leaves is
\* the one that was raised if that stop() returns, and the one stop() raised
\* otherwise. No exception leaves start() that did not begin in
\* create_and_run_containers, and start() never swallows one.
C6_StopBeforeExceptionLeavesStart ==
  /\ hist.startLeft # NoExc =>
       /\ hist.carRaised # NoExc
       /\ hist.stopInStart
       /\ hist.startLeft = IF hist.handlerStopLeft = NoExc THEN hist.carRaised
                           ELSE hist.handlerStopLeft
  /\ (pc = "idle" /\ lastCall = "start" /\ hist.carRaised # NoExc)
       => hist.startLeft # NoExc

C6_Witness ==
  /\ pc = "idle" /\ lastCall = "start"
  /\ hist.carRaised = KeyboardInterrupt
  /\ hist.stopInStart
  /\ hist.startLeft = KeyboardInterrupt

\* C8: when a SIGINT arrives while create() is inside create_container and
\* the daemon creates the container, create() raises KeyboardInterrupt only
\* with the handle holding the id of the created container.
C8_IdSetBeforeKeyboardInterrupt ==
  (hist.createExit.exc = KeyboardInterrupt /\ hist.createExit.sig
     /\ hist.createExit.made # NoId)
    => hist.createExit.id = hist.createExit.made

C8_Witness ==
  /\ hist.createExit.exc = KeyboardInterrupt
  /\ hist.createExit.sig
  /\ hist.createExit.made # NoId
  /\ hist.createExit.id = hist.createExit.made

\* C9: with a devappserver, start() on a fresh sandbox never issues more than
\* 'timeout' probes, and when it fails with the timeout error every one of the
\* 'timeout' probes has failed and no container is running once the error has
\* left start().
C9_TimeoutAfterNProbesAndNothingRunning ==
  /\ hist.pings <= timeout
  /\ (StartFailed /\ hist.prevCall = "none" /\ run_devappserver /\ outcome = TimedOut)
       => /\ hist.pings = timeout
          /\ hist.carRaised = TimedOut
          /\ \A i \in Ids : rt[i] # "running"

C9_Witness ==
  /\ StartFailed /\ hist.prevCall = "none" /\ run_devappserver
  /\ outcome = TimedOut
  /\ timeout = MaxTimeout
  /\ hist.pings = MaxTimeout
  /\ \E i \in Ids : rt[i] = "removed"

StopReturned == pc = "idle" /\ lastCall = "stop"

\* C10: stop() sends kill and then remove, in that order, for every container
\* it finds running and for no other; it raises nothing unless interrupted;
\* when it returns no container of the sandbox is running; and a stop() that
\* follows a stop(), or precedes every start(), makes no runtime call.
C10_StopKillsThenRemovesAndIsIdempotent ==
  /\ \A j \in 1..Len(hist.calls) :
       /\ hist.calls[j][2] \in hist.seenRunning
       /\ hist.calls[j][1] = "kill" =>
            \A m \in 1..(j-1) : hist.calls[m] # <<"remove", hist.calls[j][2]>>
       /\ hist.calls[j][1] = "remove" =>
            j > 1 /\ hist.calls[j-1] = <<"kill", hist.calls[j][2]>>
  /\ (StopReturned /\ ~hist.intr) => outcome = "ok"
  /\ (StopReturned /\ outcome = "ok") =>
       /\ \A s \in Slots : ~running(s)
       /\ \A i \in hist.seenRunning :
            /\ rt[i] = "removed"
            /\ \E j \in 1..Len(hist.calls) : hist.calls[j] = <<"remove", i>>
  /\ (lastCall = "stop"
        /\ (hist.prevCall = "none" \/ (hist.prevCall = "stop" /\ hist.prevOutcome = "ok")))
       => hist.calls = <<>>

C10_Witness ==
  /\ StopReturned /\ outcome = "ok"
  /\ hist.prevCall = "stop" /\ hist.prevOutcome = "ok"
  /\ Cardinality({i \in Ids : rt[i] = "removed"}) = 3

\* The elements that come before element s in sequence order.
Before(order, s) ==
  {order[a] : a \in {b \in 1..Len(order) : \E m \in (b+1)..Len(order) : order[m] = s}}

Reversed(seq_) == [j \in 1..Len(seq_) |-> seq_[Len(seq_) + 1 - j]]

\* stop() has found the container of this attribute running and is about to
\* kill it.
TearingDown(s) == In("stop", "st_kill") /\ containers_to_remove[idx] = s

\* C29 as stated: stop() tears the containers down in reverse creation
\* order, the probe container, then the application container, then the
\* support container: when it kills a container, none of the containers
\* created after it is running any more.
C29_StopTearsDownInReverseCreationOrder ==
  \A s \in Slots :
    TearingDown(s) => \A t \in Before(Reversed(creation_order), s) : ~running(t)

\* C29, amended: stop() tears the containers down in the order application
\* container, support container, probe container, which is not the reverse
\* of the order of their creation (support, application, probe): when it
\* kills the support container the application container is not running
\* any more, and when it kills the probe container neither of the two is.
C29_StopTearsDownAppSupportProbe ==
  \A s \in Slots :
    TearingDown(s) => \A t \in Before(<<"app", "das", "pinger">>, s) : ~running(t)

C29_Witness ==
  /\ TearingDown("pinger")
  /\ running("pinger")
  /\ run_devappserver
  /\ \A t \in {"app", "das"} : handle[t] = NoId
  /\ Len(hist.calls) = 4

\* The container attributes of the sandbox that hold a Container object.
Handles == {s \in Slots : handle[s] # NoObj}

\* C21: start() is idempotent: a start() called on a sandbox whose containers
\* are running (the start() before it returned and nothing has happened since)
\* creates no additional container and replaces no handle, and after any
\* sequence of start() calls followed by one stop() no container created by
\* the sandbox remains.
C21_StartIsIdempotent ==
  /\ (lastCall = "start" /\ hist.prevCall = "start" /\ hist.prevOutcome = "ok"
        /\ events = 0)
       => /\ Cardinality({i \in Ids : rt[i] # "absent"}) <= Cardinality(Handles)
          /\ \A s \in Handles : handle[s] \in 1..Cardinality(Handles)
  /\ (StopReturned /\ outcome = "ok" /\ events = 0) => \A i \in Ids : ~Exists(i)

\* start() has returned or raised.
StartLeft == pc = "idle" /\ lastCall = "start"

\* C23 as stated: with a devappserver container, if that container is not
\* running at some point of wait_for_start before the application is detected
\* as listening, wait_for_start dumps its logs and fails with the
\* devappserver-stopped error; after the container has been seen not running
\* no probe is issued and success is not reported.
C23_DeadDevappserverFailsWait ==
  /\ (StartLeft /\ hist.dasDown) => (hist.carRaised = DasDied /\ hist.dumped)
  /\ hist.dasSeen = "stopped" =>
       /\ ~In("start", "wfs_ping") /\ ~In("start", "stream_logs")
       /\ StartLeft => outcome # "ok"

\* C23, amended: with a devappserver container, if the check at the head of
\* an iteration of wait_for_start (made after the timeout check) finds that
\* container not running, wait_for_start dumps its logs and fails at once with
\* the devappserver-stopped error; a probe is issued only in an iteration
\* whose check found the container running; after the container has been seen
\* not running no probe is issued and success is not reported.
C23_SeenDeadDevappserverFailsWait ==
  /\ hist.dasSeen = "stopped" =>
       /\ hist.carRaised = DasDied /\ hist.dumped
       /\ ~In("start", "wfs_head") /\ ~In("start", "wfs_ping")
       /\ ~In("start", "stream_logs")
       /\ StartLeft => outcome # "ok"
  /\ hist.carRaised = DasDied => hist.dasSeen = "stopped"
  /\ (run_devappserver /\ (In("start", "wfs_ping") \/ In("start", "stream_logs")))
       => hist.dasSeen = "running"

C23_Witness ==
  /\ StartLeft
  /\ outcome = DasDied
  /\ hist.dasSeen = "stopped" /\ hist.dumped
  /\ hist.pings = 1
  /\ timeout = MaxTimeout
  /\ \A i \in Ids : rt[i] # "running"

\* The main thread is in the loop of wait_for_start.
InWait == In("start", "wfs_head") \/ In("start", "wfs_ping")

\* What C24 says about probes, sleeps and the timeout of 0.
BoundedWait ==
  /\ hist.pings <= timeout
  /\ InWait => (attempt - 1 <= timeout /\ attempt - 1 <= hist.pings)
  /\ (StartLeft /\ timeout = 0 /\ hist.carRaised \in {TimedOut, DasDied})
       => (hist.carRaised = TimedOut /\ hist.pings = 0)
  /\ (StartLeft /\ hist.probeOk = "none") => outcome # "ok"

\* C24 as stated: wait_for_start always terminates; it issues at most
\* 'timeout' probes and sleeps at most 'timeout' times; start() returns
\* exactly when one of the probes has succeeded while the devappserver
\* container (if there is one) was running, and raises otherwise; with
\* timeout = 0 the timeout error is raised without a probe.
C24_WaitTerminatesSuccessIffProbeWithDevappserver ==
  /\ [](BoundedWait /\ (StartLeft => (outcome = "ok" <=> hist.probeOk = "ok")))
  /\ (InWait ~> ~InWait)

\* C24, amended: wait_for_start always terminates; it issues at most
\* 'timeout' probes and sleeps at most 'timeout' times; start() returns
\* exactly when one of the probes has succeeded, a probe being issued only
\* after the check of its iteration found the devappserver container (if
\* there is one) running, and raises otherwise; with timeout = 0 the timeout
\* error is raised without a probe.
C24_WaitTerminatesSuccessIffProbe ==
  /\ [](/\ BoundedWait
        /\ StartLeft => (outcome = "ok" <=> hist.probeOk # "none")
        /\ (hist.probeOk # "none" /\ run_devappserver) => hist.dasSeen = "running")
  /\ (InWait ~> ~InWait)

C24_Witness ==
  /\ StartLeft /\ outcome = "ok"
  /\ run_devappserver
  /\ timeout = MaxTimeout
  /\ hist.pings = MaxTimeout
  /\ hist.probeOk = "ok"

\* C32: Container.create() raises KeyboardInterrupt only if a SIGINT was
\* delivered during that same call; a SIGINT absorbed during an earlier
\* create() does not make a later create(), during which no signal arrives,
\* raise KeyboardInterrupt.
C32_KeyboardInterruptOnlyForSignalOfTheCall ==
  hist.createExit.exc = KeyboardInterrupt => hist.createExit.during

\* C33: on every exit path of Container.create() (return, KeyboardInterrupt,
\* AppstartAbort for a rejected creation) the SIGINT handler is again the one
\* that was installed before the call, so that sig_handler is installed only
\* while create() is between its two signal.signal calls and a SIGINT that
\* arrives after create() is never absorbed.
C33_HandlerRestoredOnEveryExit ==
  /\ hist.createExit.exc # NoCreateExit.exc => handler = prev
  /\ handler = "sig_handler" =>
       (stack # <<>> /\ Last(stack) = "start"
          /\ pc \in {"cr_call", "cr_ret", "cr_restore"})

\* C34: stop() attempts the teardown of every running container of the
\* sandbox even when the teardown of one of them fails: if kill() or remove()
\* raises for one container, the containers that are still running are
\* killed and removed before stop() returns or raises, so that no container
\* of the sandbox is running when a stop() that no SIGINT has interrupted is
\* left.
C34_StopTearsDownEveryRunningContainer ==
  (StopReturned /\ ~hist.intr) =>
    \A s \in Slots :
      running(s) =>
        /\ hist.stopLeft = APIError
        /\ hist.calls # <<>>
        /\ hist.calls[Len(hist.calls)][2] = handle[s]

(***************************************************************************)
(* Properties of Container objects.                                        *)
(***************************************************************************)
\* C11: remove() on a created container that is not running removes it from
\* the runtime and clears the id of the handle without raising; a remove()
\* that follows it on the same handle makes no runtime call and does not
\* raise; kill() and remove() on a handle without an id make no runtime call
\* and do not raise.
C11_RemoveTwiceAndNoIdAreNoOps ==
  LET s == hist.pre.slot
  IN /\ (lastCall = "remove" /\ hist.pre.state \in {"created", "exited"})
          => /\ outcome = "ok"
             /\ hist.calls = <<<<"remove", hist.pre.id>>>>
             /\ rt[hist.pre.id] = "removed"
             /\ handle[s] = NoId
     /\ (lastCall = "remove" /\ hist.prevCall = "remove"
           /\ hist.prevOutcome = "ok" /\ hist.prevSlot = s)
          => outcome = "ok" /\ hist.calls = <<>>
     /\ (lastCall \in {"kill", "remove"} /\ hist.pre.id = NoId)
          => outcome = "ok" /\ hist.calls = <<>>

C11_Witness ==
  /\ lastCall = "remove" /\ hist.prevCall = "remove"
  /\ hist.prevOutcome = "ok" /\ hist.prevSlot = hist.pre.slot
  /\ outcome = "ok"
  /\ hist.calls = <<>>
  /\ handle[hist.pre.slot] = NoId
  /\ Cardinality({i \in Ids : rt[i] = "removed"}) = 1
  /\ \A i \in Ids : rt[i] \in {"removed", "absent"}

(***************************************************************************)
(* Properties of the log_streamer thread.                                  *)
(***************************************************************************)
\* The followed container is known to the daemon.
StreamedExists == handle[Streamed] > NoId /\ Exists(handle[Streamed])

\* The state of the sandbox, of the Container objects and of the daemon.
sandboxState ==
  <<cfgVars, handle, rt, EXITING, handler, prev, stack, pc, cur, idx, attempt,
    startExc, valExc, outcome, lastCall>>

\* C25: every step of a following log streamer leaves the state of the
\* sandbox, of the handles and of the daemon as it is; after a read timeout
\* of the daemon the streamer has not ended and collects the logs again; when
\* the daemon reports that the container does not exist the streamer ends.
C25_StreamerRetriesAfterReadTimeout ==
  [][streamer.pc \in {"inspect", "logs"} /\ streamer' # streamer =>
       /\ UNCHANGED sandboxState
       /\ (streamer.pc = "logs" /\ StreamedExists)
            => (streamer'.pc = "logs" /\ streamer'.timeouts = streamer.timeouts + 1)
       /\ (streamer.pc = "logs" /\ ~StreamedExists)
            => streamer'.pc \in {"returned", "raised"}]_vars

C25_Witness ==
  /\ streamer.pc = "returned"
  /\ streamer.timeouts = MaxReadTimeouts
  /\ handle[Streamed] > NoId
  /\ rt[handle[Streamed]] = "created"
  /\ \E i \in Ids : rt[i] = "removed"

\* The thread has not been started or has ended.
NoStreamerRuns == streamer.pc \in {"none", "returned", "raised"}

\* C35: after stop() has returned, the log_streamer thread that the sandbox
\* started eventually ends, also when the application container had exited
\* on its own before stop() was called.
C35_StreamerEndsAfterStop ==
  (StopReturned /\ outcome = "ok") ~> NoStreamerRuns

\* The places <<lifecycle point, index>> at which the plan holds clause c.
Places(c) ==
  {pl \in UNION {{p} \X (1..Len(contract[p])) : p \in DOMAIN contract} :
     contract[pl[1]][pl[2]] = c}

\* C36: in a plan that was built successfully every clause of the clause
\* dictionary, module clause or hook clause, is held exactly once, in the
\* list of its own lifecycle point, however many clauses reach it through
\* dependency or before edges.
C36_EveryClauseOnceInItsOwnBucket ==
  built = "ok" =>
    \A c \in DOMAIN clauses :
      /\ Cardinality(Places(c)) = 1
      /\ \A pl \in Places(c) : pl[1] = clauses[c].lifecycle_point

C36_Witness ==
  /\ built = "ok"
  /\ "H" \in DOMAIN clauses
  /\ \E c, x, y \in DOMAIN clauses :
       /\ x # y
       /\ c \in clauses[x].dependencies
       /\ c \in clauses[y].before
       /\ Cardinality(Places(c)) = 1

\* Clause a reaches clause d along two different paths, through b and
\* through c.
Diamond(a, b, c, d) ==
  /\ Cardinality({a, b, c, d}) = 4
  /\ {b, c} \subseteq Prerequisites(a)
  /\ d \in Prerequisites(b) \cap Prerequisites(c)

\* C38: construction reports a cycle path only when the combined graph of
\* dependencies and before edges has a directed cycle, and the path it reports
\* is such a cycle; a clause that is reachable along two different paths (a
\* diamond) is accepted.
C38_CyclePathOnlyForDirectedCycle ==
  (built = "failed" /\ error.type = CircularDependencyError
     /\ error.text = "Circular dependency was detected")
    => (Cyclic /\ PathIsCycle(error.path))

C38_Witness ==
  /\ built = "ok"
  /\ ~Cyclic
  /\ \E a, b, c, d \in DOMAIN clauses : Diamond(a, b, c, d)
  /\ added_clauses = DOMAIN clauses

\* C37: with a tag filter the dependency check comes before the tag check: a
\* clause that has a matching tag and depends on a clause that was skipped in
\* the run because none of its tags matched is itself reported SKIP because
\* its dependency did not pass, and is not evaluated.
C37_DependencyCheckedBeforeTags ==
  \A j \in 1..Len(hist.log) :
    LET x == hist.log[j].clause
    IN (/\ _tags # {}
        /\ clauses[x].tags \cap _tags # {}
        /\ \E d \in clauses[x].dependencies : \E i \in 1..(j-1) :
              /\ hist.log[i].clause = d
              /\ hist.log[i].outcome = SKIP
              /\ hist.log[i].reason = "tags")
         => /\ hist.log[j].outcome = SKIP
            /\ hist.log[j].reason = "dependency"
            /\ x \notin hist.executed

====
